---- MODULE Spec2Model ----
(***************************************************************************)
(* Verification model of memreport-insights: configuration resolution      *)
(* (ConfigResolver, PatternManifest, BaseEngineReader) and the memreport   *)
(* parser (MemreportParser).                                               *)
(*                                                                         *)
(* A JavaScript string is modelled as a sequence of one-character strings, *)
(* so that split, trim, replace and includes are computed, not assumed.    *)
(***************************************************************************)
EXTENDS Integers, Sequences, FiniteSets, TLC

(***************************************************************************)
(* String primitives of JavaScript strings                                *)
(***************************************************************************)

\* the characters String.prototype.trim and the regex class \s remove
Whitespace == {" ", "\t", "\r", "\n"}

RECURSIVE TrimStart(_)
TrimStart(s) ==
  IF s # <<>> /\ Head(s) \in Whitespace THEN TrimStart(Tail(s)) ELSE s

RECURSIVE TrimEnd(_)
TrimEnd(s) ==
  IF s # <<>> /\ s[Len(s)] \in Whitespace
    THEN TrimEnd(SubSeq(s, 1, Len(s) - 1))
    ELSE s

\* String.prototype.trim
Trim(s) == TrimEnd(TrimStart(s))

\* String.prototype.startsWith
StartsWith(s, p) == Len(p) <= Len(s) /\ SubSeq(s, 1, Len(p)) = p

\* p occurs in s at position i (1-based)
OccursAt(s, p, i) ==
  /\ i >= 1
  /\ i + Len(p) - 1 <= Len(s)
  /\ SubSeq(s, i, i + Len(p) - 1) = p

\* String.prototype.includes
Includes(s, p) == \E i \in 1..(Len(s) + 1) : OccursAt(s, p, i)

\* String.prototype.split with a one-character separator
RECURSIVE SplitChar(_, _)
SplitChar(s, ch) ==
  IF \E i \in 1..Len(s) : s[i] = ch
    THEN LET i == CHOOSE k \in 1..Len(s) :
                    s[k] = ch /\ \A m \in 1..(k - 1) : s[m] # ch
         IN  <<SubSeq(s, 1, i - 1)>> \o SplitChar(SubSeq(s, i + 1, Len(s)), ch)
    ELSE <<s>>

\* String.prototype.split(sep, limit): the first `limit` pieces
SplitLimit(s, ch, limit) ==
  LET all == SplitChar(s, ch)
  IN  IF Len(all) > limit THEN SubSeq(all, 1, limit) ELSE all

\* replace(/[set]/g, by): every character of `set` becomes `by`
ReplaceEach(s, set, by) == [i \in 1..Len(s) |-> IF s[i] \in set THEN by ELSE s[i]]

\* replace(/[set]/g, ''): every character of `set` is removed
RemoveEach(s, set) == SelectSeq(s, LAMBDA c : c \notin set)

\* replace(/[set]+/g, by): every maximal run of characters of `set` becomes one `by`
RECURSIVE ReplaceRuns(_, _, _)
ReplaceRuns(s, set, by) ==
  IF s = <<>> THEN <<>>
  ELSE IF Head(s) \in set
    THEN IF Len(s) > 1 /\ s[2] \in set
           THEN ReplaceRuns(Tail(s), set, by)
           ELSE <<by>> \o ReplaceRuns(Tail(s), set, by)
    ELSE <<Head(s)>> \o ReplaceRuns(Tail(s), set, by)

UpperLetters ==
  <<"A", "B", "C", "D", "E", "F", "G", "H", "I", "J", "K", "L", "M",
    "N", "O", "P", "Q", "R", "S", "T", "U", "V", "W", "X", "Y", "Z">>

LowerLetters ==
  <<"a", "b", "c", "d", "e", "f", "g", "h", "i", "j", "k", "l", "m",
    "n", "o", "p", "q", "r", "s", "t", "u", "v", "w", "x", "y", "z">>

LowerChar(c) ==
  IF \E k \in 1..Len(UpperLetters) : UpperLetters[k] = c
    THEN LowerLetters[CHOOSE k \in 1..Len(UpperLetters) : UpperLetters[k] = c]
    ELSE c

\* String.prototype.toLowerCase
ToLowerCase(s) == [i \in 1..Len(s) |-> LowerChar(s[i])]

\* the value of an absent optional string field
Undefined == <<"<undefined>">>

\* JavaScript truthiness of an optional string
Truthy(s) == s # Undefined /\ s # <<>>

(***************************************************************************)
(* BaseEngineReader                                                        *)
(***************************************************************************)

HdrCommands ==
  <<"[", "M", "e", "m", "R", "e", "p", "o", "r", "t",
    "C", "o", "m", "m", "a", "n", "d", "s", "]">>

HdrFullCommands ==
  <<"[", "M", "e", "m", "R", "e", "p", "o", "r", "t",
    "F", "u", "l", "l", "C", "o", "m", "m", "a", "n", "d", "s", "]">>

HdrSections ==
  <<"[", "M", "e", "m", "R", "e", "p", "o", "r", "t",
    "S", "e", "c", "t", "i", "o", "n", "s", "]">>

CmdPrefix == <<"+", "C", "m", "d", "=">>

BeginPrefix ==
  <<"M", "e", "m", "R", "e", "p", "o", "r", "t", ":", " ",
    "B", "e", "g", "i", "n", " ", "c", "o", "m", "m", "a", "n", "d", " ", "\"">>

EndPrefix ==
  <<"M", "e", "m", "R", "e", "p", "o", "r", "t", ":", " ",
    "E", "n", "d", " ", "c", "o", "m", "m", "a", "n", "d", " ", "\"">>

\* characters generateSafeFileName replaces one by one
ReservedChars == {"<", ">", ":", "\"", "/", "\\", "|", "?", "*"}

\* generateSafeFileName leaving the dots in place
generateSafeFileName_KeepDots(command) ==
  ToLowerCase(ReplaceRuns(ReplaceEach(command, ReservedChars, "_"), Whitespace, "_"))

generateSafeFileName(command) ==
  ToLowerCase(
    ReplaceRuns(
      ReplaceRuns(ReplaceEach(command, ReservedChars, "_"), Whitespace, "_"),
      {"."}, "_"))

parseCommandToSection(command) ==
  [name           |-> command,
   startPattern   |-> BeginPrefix \o command \o <<"\"">>,
   endPattern     |-> EndPrefix \o command \o <<"\"">>,
   parsePatternId |-> generateSafeFileName(command)]

\* the result of parseSectionLine: a one-element list, or the empty list for null
parseSectionLine(line) ==
  LET nv == SplitLimit(line, "=", 2)
  IN  IF Len(nv) < 2 \/ nv[1] = <<>> \/ nv[2] = <<>> THEN <<>>
      ELSE LET parts == SplitChar(nv[2], "|")
           IN  IF Len(parts) < 2 THEN <<>>
               ELSE <<[name           |-> Trim(nv[1]),
                       startPattern   |-> Trim(parts[1]),
                       endPattern     |-> Trim(parts[2]),
                       parsePatternId |->
                         IF Len(parts) >= 3 /\ Trim(parts[3]) # <<>>
                           THEN Trim(parts[3])
                           ELSE Undefined]>>

\* the loop of parseUE5EngineConfig over the lines from index i on
RECURSIVE UE5Scan(_, _, _)
UE5Scan(lines, i, inBlock) ==
  IF i > Len(lines) THEN <<>>
  ELSE LET t == Trim(lines[i])
       IN  IF t = HdrFullCommands THEN UE5Scan(lines, i + 1, TRUE)
           ELSE IF StartsWith(t, <<"[">>) THEN UE5Scan(lines, i + 1, FALSE)
           ELSE IF StartsWith(t, <<";">>) \/ t = <<>> THEN UE5Scan(lines, i + 1, inBlock)
           ELSE IF inBlock /\ StartsWith(t, CmdPrefix)
             THEN <<parseCommandToSection(
                      RemoveEach(SubSeq(t, 6, Len(t)), {"\""}))>>
                  \o UE5Scan(lines, i + 1, inBlock)
             ELSE UE5Scan(lines, i + 1, inBlock)

parseUE5EngineConfig(lines) == UE5Scan(lines, 1, FALSE)

\* the legacy loop of parseEngineConfig over the lines from index i on
RECURSIVE LegacyScan(_, _, _)
LegacyScan(lines, i, inBlock) ==
  IF i > Len(lines) THEN <<>>
  ELSE LET t == Trim(lines[i])
       IN  IF t = HdrSections THEN LegacyScan(lines, i + 1, TRUE)
           ELSE IF StartsWith(t, <<"[">>) THEN LegacyScan(lines, i + 1, FALSE)
           ELSE IF StartsWith(t, <<";">>) \/ t = <<>> THEN LegacyScan(lines, i + 1, inBlock)
           ELSE IF inBlock /\ Includes(t, <<"=">>)
             THEN parseSectionLine(t) \o LegacyScan(lines, i + 1, inBlock)
             ELSE LegacyScan(lines, i + 1, inBlock)

\* parseEngineConfig choosing the dialect by the header of the command block
parseEngineConfig_ByBlockHeader(lines) ==
  IF \E i \in 1..Len(lines) : Includes(lines[i], HdrFullCommands)
    THEN parseUE5EngineConfig(lines)
    ELSE LegacyScan(lines, 1, FALSE)

\* parseEngineConfig: the section definitions of a base-settings text, given
\* as the list of its lines (content.split('\n'))
parseEngineConfig(lines) ==
  IF \E i \in 1..Len(lines) : Includes(lines[i], HdrCommands)
    THEN parseUE5EngineConfig(lines)
    ELSE LegacyScan(lines, 1, FALSE)

(***************************************************************************)
(* Resources served to fetch: the base-settings document, the per-family   *)
(* manifests and the per-pattern documents                                 *)
(***************************************************************************)

V427 == <<"4", ".", "2", "7">>
V53 == <<"5", ".", "3">>
V56 == <<"5", ".", "6">>
V50 == <<"5", ".", "0">>

\* the version strings handed to loadEngineConfig
VersionInputs == {V427, V53, V56, V50}

CmdLine(command) == CmdPrefix \o <<"\"">> \o command \o <<"\"">>

CmdRhiDump == <<"r", "h", "i", ".", "D", "u", "m", "p">>
CmdObjList == <<"o", "b", "j", " ", "l", "i", "s", "t">>
CmdObjDotList == <<"O", "b", "j", ".", "L", "i", "s", "t">>
CmdMem == <<"m", "e", "m">>

\* base-settings documents (as their lines): two sections with distinct
\* pattern ids; two sections sharing one pattern id; an empty command (no
\* pattern id) and a command outside the block; no open block at all; a
\* section whose pattern id no manifest lists
BaseDocs ==
  { <<HdrCommands, HdrFullCommands,
      CmdLine(CmdRhiDump), <<";", "x">>, CmdLine(CmdObjList)>>,
    <<HdrCommands, HdrFullCommands \o <<"\r">>,
      CmdLine(CmdObjList), <<>>, CmdLine(CmdObjDotList) \o <<"\r">>>>,
    <<HdrCommands, HdrFullCommands, CmdLine(<<>>), CmdLine(CmdRhiDump),
      <<"[", "X", "]">>, CmdLine(CmdMem)>>,
    <<HdrCommands, CmdLine(CmdMem)>>,
    <<HdrCommands, HdrFullCommands, CmdLine(CmdMem), CmdLine(CmdRhiDump)>> }

JsonSuffix == <<".", "j", "s", "o", "n">>

\* the lines of <family>_manifest.txt
ManifestLines(patternFolder) ==
  IF patternFolder = "ue5"
    THEN << <<"r", "h", "i", "_", "d", "u", "m", "p">> \o JsonSuffix,
            <<" ">> \o <<"o", "b", "j", "_", "l", "i", "s", "t">> \o JsonSuffix \o <<"\r">>,
            <<>> >>
    ELSE << <<"u", "e", "4", "2", "7">> \o JsonSuffix >>

\* a table pattern of a pattern document, named after its pattern id
TablePattern(id, k, hasHeaders) ==
  [name           |-> id \o <<"#", k>>,
   startPattern   |-> <<"S", k>>,
   endPattern     |-> <<"E", k>>,
   headers        |-> hasHeaders,
   separator      |-> <<>>,
   splitFormat    |-> Undefined,
   numericColumns |-> <<>>]

\* the parsed body of parse_patterns/<family>/<patternId>.json
PatternDocument(patternId) ==
  IF Len(patternId) > 3 /\ patternId[1] = "r"
    THEN [tables |-> <<TablePattern(patternId, "1", TRUE)>>]
    ELSE [tables |-> <<TablePattern(patternId, "1", FALSE),
                       TablePattern(patternId, "2", TRUE)>>]

\* parse_patterns/ue4/ue427.json in the old format (SectionSettings); an
\* optional list field is <<>> when absent and <<list>> when present
LegacyDocument ==
  [version     |-> V427,
   sections    |->
     << [title |-> <<"O", "b", "j">>, start_mark |-> <<"B">>, end_mark |-> <<"F">>,
         tables |-> << << [start_mark |-> <<"S">>, end_mark |-> <<"E">>, headers |-> TRUE,
                        separator |-> Undefined, split_format |-> <<"(\\S+)\\s+(.*)">>,
                        numeric |-> <<>>] >> >>],
        [title |-> <<"R", "H", "I">>, start_mark |-> <<"G">>, end_mark |-> <<"H">>,
         tables |-> <<>>] >>]

(***************************************************************************)
(* State                                                                   *)
(***************************************************************************)

VARIABLES
  baseDoc,            \* the lines of the base-settings document being served
  parsePatternCache,  \* ConfigResolver.parsePatternCache: key -> <<>> (null) or <<pattern>>
  manifestCache,      \* PatternManifest.manifestCache: folder -> set of file names
  callStatus,         \* per loadEngineConfig call: where it is suspended
  callVersion,        \* its version argument
  callDefs,           \* engineConfig.sections of the call
  secState,           \* per section promise: "manifest", "pattern" or "settled"
  secValue,           \* the slots of Promise.all: <<>> or <<resolved section>>
  callResult,         \* the resolved configuration, once resolved
  callError,          \* the error, once rejected
  callIO,             \* fetches issued by the call so far, by kind
  callBase,           \* how the call's base-settings fetch ended
  secLoad,            \* per section: how its manifest and pattern loads ended
  settleOrder,        \* per call: the section indices in the order they settled
  manifestLoads,      \* folder -> manifest fetches issued so far
  patternLoads,       \* key -> pattern fetches issued since the last clearCache
  starts,             \* loadEngineConfig calls started so far
  clears,             \* clearCache calls so far
  probe               \* a direct patternExists / getAvailablePatterns call

VARIABLES
  rawText,            \* the content handed to the MemreportParser constructor
  pText,              \* this.text: the content with line endings normalized
  pSettings,          \* this.settings: the resolved section configurations
  pStatus,            \* where parse() is: "running", "yield", "done", "failed" or "idle"
  pIndex,             \* the loop position: the next element of this.settings
  pSections,          \* the local `sections` of parse()
  pOrigin,            \* for each element of pSections, the index of its configuration
  pYields             \* setTimeout yields taken by parse() so far

pvars == <<rawText, pText, pSettings, pStatus, pIndex, pSections, pOrigin, pYields>>

VARIABLES
  detContent,         \* the report content handed to detectUEVersion
  detStatus,          \* "idle", "called" or "returned"
  detVersion          \* the version detectUEVersion returned

dvars == <<detContent, detStatus, detVersion>>

VARIABLES
  valStatus,          \* where a validation is: "idle", "legacy", "base" or "done"
  valInput,           \* the version or the configuration under validation
  valLoaded,          \* whether the configuration of the version could be loaded
  valResult           \* the list of problems returned

vvars == <<valStatus, valInput, valLoaded, valResult>>

VARIABLES
  rdLines,            \* the lines of the text handed to parseEngineConfig
  rdStatus,           \* "idle", "called" or "returned"
  rdResult            \* the section definitions parseEngineConfig returned

evars == <<rdLines, rdStatus, rdResult>>

VARIABLES
  appStatus,          \* where processFile / processSampleFile is suspended
  appSource,          \* "file", "sample" or "none"
  appContent,         \* the text of the file or of the sample
  isProcessing,       \* AppContent state
  parsedReport,       \* AppContent state: <<>> (null) or <<document>>
  uploadError         \* FileUpload state: <<>> (null) or the message

avars == <<appStatus, appSource, appContent, isProcessing, parsedReport, uploadError>>

rvars ==
  <<baseDoc, parsePatternCache, manifestCache, callStatus, callVersion, callDefs,
    secState, secValue, callResult, callError, callIO, callBase, secLoad,
    settleOrder, manifestLoads, patternLoads, starts, clears, probe>>

vars == <<rvars, pvars, dvars, vvars, evars, avars>>

\* concurrently running loadEngineConfig calls
Calls == {1, 2}

MaxStarts == 2
MaxClears == 1
MaxProbes == 1

Folders == {"ue4", "ue5"}

\* the section definitions of the longest base-settings document served
MaxSections == 2

\* f with key k set to v (an object property or Map entry assignment)
Put(f, k, v) == [x \in (DOMAIN f) \cup {k} |-> IF x = k THEN v ELSE f[x]]

Count(f, k) == IF k \in DOMAIN f THEN f[k] ELSE 0

\* the load counters record 0, 1 or "more than once"
CountCap == 2
Capped(n) == IF n > CountCap THEN CountCap ELSE n

(***************************************************************************)
(* PatternManifest                                                         *)
(***************************************************************************)

FetchOutcomes == {"ok", "notOk", "reject"}

\* what the history variables record of a load: that it succeeded or failed
Ended(outcome) == IF outcome = "ok" THEN "ok" ELSE "failed"

\* manifestText.split('\n').map(trim).filter(length > 0), as a Set
ParseManifest(lines) ==
  {Trim(lines[i]) : i \in 1..Len(lines)} \ {<<>>}

\* loadManifest without its response.ok test: the body of an error response is
\* read as the manifest
loadManifestEnd_NoOkCheck(patternFolder, outcome) ==
  IF outcome \in {"ok", "notOk"}
    THEN ParseManifest(ManifestLines(patternFolder)) ELSE {}

\* what loadManifest caches and returns once its fetch has ended
loadManifestEnd(patternFolder, outcome) ==
  IF outcome = "ok" THEN ParseManifest(ManifestLines(patternFolder)) ELSE {}

\* patternExists answering true whatever the manifest lists
manifestHas_Always(files, patternId) == TRUE

\* manifest.has(`${patternId}.json`)
manifestHas(files, patternId) == (patternId \o JsonSuffix) \in files

\* filename.replace('.json', ''): the first occurrence is removed
StripJson(filename) ==
  IF Includes(filename, JsonSuffix)
    THEN LET i == CHOOSE k \in 1..Len(filename) :
                    /\ OccursAt(filename, JsonSuffix, k)
                    /\ \A m \in 1..(k - 1) : ~OccursAt(filename, JsonSuffix, m)
         IN  SubSeq(filename, 1, i - 1)
             \o SubSeq(filename, i + Len(JsonSuffix), Len(filename))
    ELSE filename

\* the answer of patternExists / getAvailablePatterns from a loaded manifest
ProbeAnswer(op, files, patternId) ==
  [exists |-> op = "patternExists" /\ manifestHas(files, patternId),
   names  |-> IF op = "getAvailablePatterns"
                THEN {StripJson(f) : f \in files} ELSE {}]

(***************************************************************************)
(* ConfigResolver                                                          *)
(***************************************************************************)

getPatternFolder(version) ==
  IF StartsWith(version, <<"4", ".">>) THEN "ue4" ELSE "ue5"

\* versionMap[version] of loadBaseEngineFile
versionMap(version) ==
  IF version \in {V53, V56} THEN <<"BaseEngine_5.6.1.ini">> ELSE Undefined

\* `${version}:${patternId}`
CacheKey(version, patternId) == version \o <<":">> \o patternId

\* if (this.parsePatternCache[cacheKey]): present and not null
CacheHit(cache, key) == key \in DOMAIN cache /\ cache[key] # <<>>

NoError == [message |-> "", version |-> <<>>]

\* loadBaseEngineFile without its response.ok test: the body of an error
\* response is returned as the document
loadBaseEngineFileEnd_NoOkCheck(version, outcome) ==
  IF outcome \in {"ok", "notOk"}
    THEN [ok |-> TRUE, error |-> NoError]
    ELSE [ok |-> FALSE,
          error |-> [message |-> "Failed to load BaseEngine file for version",
                     version |-> version]]

\* how loadBaseEngineFile ends once its fetch has ended
loadBaseEngineFileEnd(version, outcome) ==
  IF outcome = "ok"
    THEN [ok |-> TRUE, error |-> NoError]
    ELSE [ok |-> FALSE,
          error |-> [message |-> "Failed to load BaseEngine file for version",
                     version |-> version]]

PatternOutcomes == {"ok", "notOk", "reject", "nonJson", "html", "badJson"}

\* loadParsePattern without its content-type test: a body served under
\* another content type is parsed and used
loadParsePatternEnd_NoContentTypeCheck(outcome, patternId) ==
  IF outcome \in {"ok", "nonJson"}
    THEN [value |-> <<PatternDocument(patternId)>>, store |-> "pattern"]
    ELSE IF outcome = "notOk"
      THEN [value |-> <<>>, store |-> "null"]
      ELSE [value |-> <<>>, store |-> "none"]

\* how loadParsePattern ends once its pattern fetch has ended: the value it
\* returns (<<>> for null) and what it stores under the cache key
loadParsePatternEnd(outcome, patternId) ==
  IF outcome = "ok"
    THEN [value |-> <<PatternDocument(patternId)>>, store |-> "pattern"]
    ELSE IF outcome = "notOk"
      THEN [value |-> <<>>, store |-> "null"]
      ELSE [value |-> <<>>, store |-> "none"]

\* loadParsePattern up to its first suspension, for one section definition
SecBegin(cache, mcache, version, def) ==
  LET pid == def.parsePatternId
      folder == getPatternFolder(version)
  IN  IF ~Truthy(pid) THEN [state |-> "settled", value |-> <<>>, how |-> "noId"]
      ELSE IF CacheHit(cache, CacheKey(version, pid))
        THEN [state |-> "settled", value |-> cache[CacheKey(version, pid)],
              how |-> "hit"]
      ELSE IF folder \in DOMAIN mcache
        THEN IF manifestHas(mcache[folder], pid)
               THEN [state |-> "pattern", value |-> <<>>, how |-> "listed"]
               ELSE [state |-> "settled", value |-> <<>>, how |-> "absent"]
      ELSE [state |-> "manifest", value |-> <<>>, how |-> "fetch"]

\* the object built by the map callback of loadEngineConfig
ResolvedSection(def, parsePattern) ==
  [name         |-> def.name,
   startPattern |-> def.startPattern,
   endPattern   |-> def.endPattern,
   tables       |-> IF parsePattern = <<>> THEN <<>> ELSE parsePattern[1].tables]

\* results collected in completion order: the value goes to the first free slot
PromiseAllSettle_FirstFree(values, index, v) ==
  LET free == CHOOSE k \in 1..Len(values) :
                values[k] = <<>> /\ \A m \in 1..(k - 1) : values[m] # <<>>
  IN  [values EXCEPT ![free] = <<v>>]

\* Promise.all: the value of promise `index` goes to slot `index`
PromiseAllSettle(values, index, v) == [values EXCEPT ![index] = <<v>>]

AllSettled(values) == \A i \in 1..Len(values) : values[i] # <<>>

\* the object loadEngineConfig returns
ResolvedConfig(version, values) ==
  [version  |-> version,
   sections |-> [i \in 1..Len(values) |-> values[i][1]]]

convertTableSettings(t) ==
  [name           |-> t.start_mark,
   startPattern   |-> t.start_mark,
   endPattern     |-> t.end_mark,
   headers        |-> t.headers,
   separator      |-> IF Truthy(t.separator) THEN t.separator ELSE <<>>,
   splitFormat    |-> t.split_format,
   numericColumns |-> IF t.numeric = <<>> THEN <<>> ELSE t.numeric[1]]

\* the conversion of loadUE427Config
ConvertLegacy(config) ==
  [version  |-> config.version,
   sections |->
     [i \in 1..Len(config.sections) |->
        LET s == config.sections[i]
        IN  [name         |-> s.title,
             startPattern |-> s.start_mark,
             endPattern   |-> s.end_mark,
             tables       |-> IF s.tables = <<>> THEN <<>>
                              ELSE [k \in 1..Len(s.tables[1]) |->
                                      convertTableSettings(s.tables[1][k])]]]]

NoResult == [version |-> <<>>, sections |-> <<>>]
NoIO == [base |-> 0, manifest |-> 0, pattern |-> 0]
NoLoad == [begin |-> "none", manifest |-> "none", pattern |-> "none"]
IdleProbe ==
  [status |-> "idle", op |-> "", folder |-> "", patternId |-> <<>>,
   loaded |-> "none", answer |-> ProbeAnswer("", {}, <<>>), count |-> 0]

(***************************************************************************)

(***************************************************************************)
(* detectUEVersion                                                         *)
(***************************************************************************)

MarkLumen ==
  <<"L", "u", "m", "e", "n">>
MarkStatLumen ==
  <<"S", "T", "A", "T", "_", "L", "u", "m", "e", "n">>
MarkNanite ==
  <<"N", "a", "n", "i", "t", "e">>
MarkStatNanite ==
  <<"S", "T", "A", "T", "_", "N", "a", "n", "i", "t", "e">>
MarkRhiSummary ==
  <<"M", "e", "m", "R", "e", "p", "o", "r", "t", ":", " ", "B", "e", "g",
    "i", "n", " ", "c", "o", "m", "m", "a", "n", "d", " ", "\"", "r", "h",
    "i", ".", "d", "u", "m", "p", "r", "e", "s", "o", "u", "r", "c", "e",
    "m", "e", "m", "o", "r", "y", " ", "s", "u", "m", "m", "a", "r", "y">>
MarkCoarseMesh ==
  <<"S", "T", "A", "T", "G", "R", "O", "U", "P", "_", "N", "a", "n", "i",
    "t", "e", "C", "o", "a", "r", "s", "e", "M", "e", "s", "h", "S", "t",
    "r", "e", "a", "m", "i", "n", "g">>
MarkStreamingSources ==
  <<"w", "p", ".", "D", "u", "m", "p", "S", "t", "r", "e", "a", "m", "i",
    "n", "g", "S", "o", "u", "r", "c", "e", "s">>
MarkEpicApp5 ==
  <<"e", "p", "i", "c", "a", "p", "p", "=", "U", "E", "_", "5">>

\* detectUEVersion without the feature test in front of the 5.6 markers
detectUEVersion_NoFeatureGuard(content) ==
  IF \/ Includes(content, MarkRhiSummary)
     \/ Includes(content, MarkCoarseMesh)
     \/ Includes(content, MarkStreamingSources)
    THEN V56
  ELSE IF \/ Includes(content, MarkLumen) \/ Includes(content, MarkStatLumen)
          \/ Includes(content, MarkNanite) \/ Includes(content, MarkStatNanite)
    THEN V53
  ELSE IF Includes(content, MarkEpicApp5) THEN V53
  ELSE V427

\* detectUEVersion taking the major version from the environment string
detectUEVersion_EnvMajor(content) ==
  LET hasLumen == Includes(content, MarkLumen) \/ Includes(content, MarkStatLumen)
      hasNanite == Includes(content, MarkNanite) \/ Includes(content, MarkStatNanite)
      hasUE5Features == hasLumen \/ hasNanite
  IN  IF /\ hasUE5Features
         /\ \/ Includes(content, MarkRhiSummary)
            \/ Includes(content, MarkCoarseMesh)
            \/ Includes(content, MarkStreamingSources)
        THEN V56
      ELSE IF hasUE5Features THEN V53
      ELSE IF Includes(content, MarkEpicApp5) THEN V50
      ELSE V427

detectUEVersion(content) ==
  LET hasLumen == Includes(content, MarkLumen) \/ Includes(content, MarkStatLumen)
      hasNanite == Includes(content, MarkNanite) \/ Includes(content, MarkStatNanite)
      hasUE5Features == hasLumen \/ hasNanite
  IN  IF /\ hasUE5Features
         /\ \/ Includes(content, MarkRhiSummary)
            \/ Includes(content, MarkCoarseMesh)
            \/ Includes(content, MarkStreamingSources)
        THEN V56
      ELSE IF hasUE5Features THEN V53
      ELSE IF Includes(content, MarkEpicApp5) THEN V53
      ELSE V427

(***************************************************************************)
(* validateEngineConfig and validateConfig                                 *)
(***************************************************************************)

MsgVersionRequired ==
  <<"V", "e", "r", "s", "i", "o", "n", " ", "i", "s", " ", "r", "e", "q",
    "u", "i", "r", "e", "d">>
MsgSectionRequired ==
  <<"A", "t", " ", "l", "e", "a", "s", "t", " ", "o", "n", "e", " ", "s",
    "e", "c", "t", "i", "o", "n", " ", "i", "s", " ", "r", "e", "q", "u",
    "i", "r", "e", "d">>
MsgNameRequired ==
  <<"S", "e", "c", "t", "i", "o", "n", " ", "n", "a", "m", "e", " ", "i",
    "s", " ", "r", "e", "q", "u", "i", "r", "e", "d">>
MsgDuplicate ==
  <<"D", "u", "p", "l", "i", "c", "a", "t", "e", " ", "s", "e", "c", "t",
    "i", "o", "n", " ", "n", "a", "m", "e", ":", " ">>
MsgStartRequired ==
  <<"S", "t", "a", "r", "t", " ", "p", "a", "t", "t", "e", "r", "n", " ",
    "i", "s", " ", "r", "e", "q", "u", "i", "r", "e", "d", " ", "f", "o",
    "r", " ", "s", "e", "c", "t", "i", "o", "n", ":", " ">>
MsgEndRequired ==
  <<"E", "n", "d", " ", "p", "a", "t", "t", "e", "r", "n", " ", "i", "s",
    " ", "r", "e", "q", "u", "i", "r", "e", "d", " ", "f", "o", "r", " ",
    "s", "e", "c", "t", "i", "o", "n", ":", " ">>
MsgFailed ==
  <<"F", "a", "i", "l", "e", "d", " ", "t", "o", " ", "l", "o", "a", "d",
    " ", "o", "r", " ", "v", "a", "l", "i", "d", "a", "t", "e", " ", "c",
    "o", "n", "f", "i", "g", ":", " ">>
MsgUnsupported ==
  <<"E", "r", "r", "o", "r", ":", " ", "U", "n", "s", "u", "p", "p", "o",
    "r", "t", "e", "d", " ", "e", "n", "g", "i", "n", "e", " ", "v", "e",
    "r", "s", "i", "o", "n", ":", " ">>
MsgBaseFile ==
  <<"E", "r", "r", "o", "r", ":", " ", "F", "a", "i", "l", "e", "d", " ",
    "t", "o", " ", "l", "o", "a", "d", " ", "B", "a", "s", "e", "E", "n",
    "g", "i", "n", "e", " ", "f", "i", "l", "e", " ", "f", "o", "r", " ",
    "v", "e", "r", "s", "i", "o", "n", " ">>
MsgLegacyFile ==
  <<"E", "r", "r", "o", "r", ":", " ", "F", "a", "i", "l", "e", "d", " ",
    "t", "o", " ", "l", "o", "a", "d", " ", "U", "E", "4", ".", "2", "7",
    " ", "c", "o", "n", "f", "i", "g", ":", " ">>

\* sectionNames.add remembering only the name added last
AddName_OnlyLast(sectionNames, name) == {name}

\* sectionNames.add(section.name)
AddName(sectionNames, name) ==
  sectionNames \cup {name}

\* the loop of validateEngineConfig over the sections from index i on, with
\* the names seen so far
RECURSIVE ValidateScan(_, _, _)
ValidateScan(sections, i, sectionNames) ==
  IF i > Len(sections) THEN <<>>
  ELSE LET section == sections[i]
       IN  IF ~Truthy(section.name)
             THEN <<MsgNameRequired>> \o ValidateScan(sections, i + 1, sectionNames)
             ELSE (IF section.name \in sectionNames
                     THEN <<MsgDuplicate \o section.name>> ELSE <<>>)
                  \o (IF ~Truthy(section.startPattern)
                        THEN <<MsgStartRequired \o section.name>> ELSE <<>>)
                  \o (IF ~Truthy(section.endPattern)
                        THEN <<MsgEndRequired \o section.name>> ELSE <<>>)
                  \o ValidateScan(sections, i + 1, AddName(sectionNames, section.name))

validateEngineConfig(config) ==
  (IF ~Truthy(config.version) THEN <<MsgVersionRequired>> ELSE <<>>)
  \o (IF Len(config.sections) = 0 THEN <<MsgSectionRequired>> ELSE <<>>)
  \o ValidateScan(config.sections, 1, {})

\* the basic validation validateConfig applies to the 4.27 configuration
validateLegacy(resolvedConfig) ==
  (IF ~Truthy(resolvedConfig.version) THEN <<MsgVersionRequired>> ELSE <<>>)
  \o (IF Len(resolvedConfig.sections) = 0 THEN <<MsgSectionRequired>> ELSE <<>>)

\* validateConfig letting the error of a failed load escape
Caught_Rethrown(error) == [status |-> "rejected", result |-> <<>>]

\* the catch clause of validateConfig
Caught(error) ==
  [status |-> "done", result |-> <<MsgFailed \o error>>]

\* the text of the error a fetch that did not end well leaves behind
Detail(outcome) ==
  IF outcome = "notOk" THEN <<"E", "r", "r", "o", "r">>
  ELSE IF outcome = "badJson" THEN <<"S", "y", "n", "t", "a", "x", "E", "r", "r", "o", "r">>
  ELSE <<"T", "y", "p", "e", "E", "r", "r", "o", "r">>


(* MemreportParser: matching                                               *)
(***************************************************************************)

\* the characters a regular expression treats as ends of lines
LineTerminators == {"\n", "\r"}

\* Array.prototype.join('\n') of a list that is not empty
RECURSIVE JoinLines(_)
JoinLines(ls) ==
  IF Len(ls) = 1 THEN ls[1] ELSE ls[1] \o <<"\n">> \o JoinLines(Tail(ls))

\* content.replace(/\r\n/g, '\n'): a carriage return that stands right in
\* front of a line feed is dropped
NormalizeEol(s) ==
  LET pieces == SplitChar(s, "\n")
      Strip(k) ==
        LET piece == pieces[k]
        IN  IF k < Len(pieces) /\ piece # <<>> /\ piece[Len(piece)] = "\r"
              THEN SubSeq(piece, 1, Len(piece) - 1)
              ELSE piece
  IN  JoinLines([k \in 1..Len(pieces) |-> Strip(k)])

\* the text a new MemreportParser keeps
NewParserText_Raw(content) == content

NewParserText(content) ==
  NormalizeEol(content)

\* A marker is the source of a regular expression made of literal characters
\* and the wildcard `.`; under the flag `s` the wildcard matches every
\* character, line terminators included.
AtomMatches(a, c) == a = "." \/ a = c

\* the marker matches the characters of s that start at position i
MatchAt(s, marker, i) ==
  /\ i >= 1
  /\ i + Len(marker) - 1 <= Len(s)
  /\ \A k \in 1..Len(marker) : AtomMatches(marker[k], s[i + k - 1])

\* `$` under the flag `m`, at the position in front of character i
EndOfLine(s, i) == i = Len(s) + 1 \/ (i <= Len(s) /\ s[i] \in LineTerminators)

Min(S) == CHOOSE x \in S : \A y \in S : x <= y
Max(S) == CHOOSE x \in S : \A y \in S : x >= y

\* new RegExp(`${start}.+?${end}$`, 'ms').exec(text): the leftmost start,
\* then the nearest end marker that leaves at least one character in between
\* and is followed by an end of line; <<>> when there is no match, else
\* <<match[0]>>
SectionMatch(text, start, end) ==
  LET Ends(p) == {q \in (p + Len(start) + 1)..(Len(text) + 1) :
                    MatchAt(text, end, q) /\ EndOfLine(text, q + Len(end))}
      Starts == {p \in 1..(Len(text) + 1) : MatchAt(text, start, p) /\ Ends(p) # {}}
  IN  IF Starts = {} THEN <<>>
      ELSE LET p == Min(Starts)
               q == Min(Ends(p))
           IN  <<SubSeq(text, p, q + Len(end) - 1)>>

\* new RegExp(`(?<pre>.*?)(?<table>${start}.*)(?<post>${end})`, 'ms').exec(text):
\* the shortest leading text, then the table body from the start marker up to
\* the last end marker; <<>> when there is no match, else <<match.groups>>
TableMatch(text, start, end) ==
  LET Ends(p) == {q \in (p + Len(start))..(Len(text) + 1) : MatchAt(text, end, q)}
      Starts == {p \in 1..(Len(text) + 1) : MatchAt(text, start, p) /\ Ends(p) # {}}
  IN  IF Starts = {} THEN <<>>
      ELSE LET p == Min(Starts)
               q == Max(Ends(p))
           IN  << [pre   |-> SubSeq(text, 1, p - 1),
                   table |-> SubSeq(text, p, q - 1),
                   post  |-> SubSeq(text, q, q + Len(end) - 1)] >>

EchoPrefix == <<"M", "e", "m", "R", "e", "p", "o", "r", "t", ":", " ">>
EchoCommand == <<" ", "c", "o", "m", "m", "a", "n", "d">>

\* the line matches /^MemReport: .+? command.+$/
EchoLine(line) ==
  /\ StartsWith(line, EchoPrefix)
  /\ \E i \in (Len(EchoPrefix) + 2)..Len(line) :
        OccursAt(line, EchoCommand, i) /\ i + Len(EchoCommand) <= Len(line)

\* text.replace(/^MemReport: .+? command.+$/gm, ''): every line of that shape
\* is emptied, the line terminators stay
RECURSIVE removeCommandLog(_)
removeCommandLog(text) ==
  LET Terms == {i \in 1..Len(text) : text[i] \in LineTerminators}
      e == IF Terms = {} THEN Len(text) + 1 ELSE Min(Terms)
      line == SubSeq(text, 1, e - 1)
      kept == IF EchoLine(line) THEN <<>> ELSE line
  IN  IF e > Len(text) THEN kept
      ELSE kept \o <<text[e]>> \o removeCommandLog(SubSeq(text, e + 1, Len(text)))

(***************************************************************************)
(* MemreportParser: rows                                                   *)
(***************************************************************************)

\* The sources of the extraction rules (splitFormat) in use. A rule is kept
\* as <<source>>; RegExpValid and RegExpExec give what new RegExp(source) and
\* its exec do.
FormatLabelRest == "(\\S+)\\s+(.*)"
FormatThree == "(\\S+)\\s+(\\S+)(?:\\s+(\\S+))?"
FormatNoGroups == "\\S+"
FormatUnclosed == "("

\* new RegExp(source) throws a SyntaxError on an unterminated group
RegExpValid(source) == source # FormatUnclosed

\* the first position from i on whose character is in the set (is not in the
\* set), Len(s) + 1 when there is none
IndexIn(s, i, set) == Min({k \in i..Len(s) : s[k] \in set} \cup {Len(s) + 1})
IndexNotIn(s, i, set) == Min({k \in i..Len(s) : s[k] \notin set} \cup {Len(s) + 1})

\* /(\S+)\s+(.*)/.exec(row): <<>> when there is no match, else
\* <<match.slice(1)>>. The leftmost match starts at the first character that
\* is not whitespace and needs whitespace after the run it starts; group 1
\* is that run, group 2 what follows the whitespace up to a line terminator.
ExecLabelRest(row) ==
  LET label == IndexNotIn(row, 1, Whitespace)
      gap == IndexIn(row, label, Whitespace)
      rest == IndexNotIn(row, gap, Whitespace)
      stop == IndexIn(row, rest, LineTerminators)
  IN  IF gap > Len(row) THEN <<>>
      ELSE << <<SubSeq(row, label, gap - 1), SubSeq(row, rest, stop - 1)>> >>

\* /(\S+)\s+(\S+)(?:\s+(\S+))?/.exec(row): the first two runs of characters
\* that are not whitespace, and the third one when there is one; the group
\* that did not take part is undefined, which `s || ''` turns into ''
ExecThree(row) ==
  LET first == IndexNotIn(row, 1, Whitespace)
      gap1 == IndexIn(row, first, Whitespace)
      second == IndexNotIn(row, gap1, Whitespace)
      gap2 == IndexIn(row, second, Whitespace)
      third == IndexNotIn(row, gap2, Whitespace)
      stop == IndexIn(row, third, Whitespace)
  IN  IF second > Len(row) THEN <<>>
      ELSE << <<SubSeq(row, first, gap1 - 1), SubSeq(row, second, gap2 - 1),
                SubSeq(row, third, stop - 1)>> >>

\* /\S+/.exec(row): a match without groups when the row has a character that
\* is not whitespace
ExecNoGroups(row) ==
  IF IndexNotIn(row, 1, Whitespace) > Len(row) THEN <<>> ELSE << <<>> >>

RegExpExec(source, row) ==
  IF source = FormatLabelRest THEN ExecLabelRest(row)
  ELSE IF source = FormatThree THEN ExecThree(row)
  ELSE IF source = FormatNoGroups THEN ExecNoGroups(row)
  ELSE <<>>

\* An optional list is <<>> when absent and <<list>> when present.
\* the three outcomes of splitColumns: an exception, null, or a list of cells
Thrown == [kind |-> "throw", cells |-> <<>>]
NullRow == [kind |-> "null", cells |-> <<>>]
Row(cells) == [kind |-> "row", cells |-> cells]

TrimAll(cells) == [k \in 1..Len(cells) |-> Trim(cells[k])]

ExpandCommas_Never(result) == result

\* the special handling of a label with comma-delimited values
ExpandCommas(result) ==
  IF Len(result) = 2 /\ Includes(result[2], <<",">>)
    THEN <<result[1]>> \o TrimAll(SplitChar(result[2], ","))
    ELSE result

splitColumns(row, settings) ==
  IF Trim(row) = <<>> THEN NullRow
  ELSE IF Truthy(settings.splitFormat)
    THEN IF ~RegExpValid(settings.splitFormat[1]) THEN Thrown
         ELSE LET match == RegExpExec(settings.splitFormat[1], row)
              IN  IF match = <<>> THEN NullRow
                  ELSE Row(ExpandCommas(TrimAll(match[1])))
  ELSE IF Truthy(settings.separator)
    THEN Row(TrimAll(SplitChar(row, settings.separator[1])))
    ELSE Row(<<row>>)

(***************************************************************************)
(* MemreportParser: tables and sections                                    *)
(***************************************************************************)

NoTable == [kind |-> "null"]
ThrownTable == [kind |-> "throw"]

\* .filter(line => line !== null && line.length > 0)
KeepLine_NonNull(r) == r.kind = "row"

KeepLine(r) ==
  r.kind = "row" /\ r.cells # <<>>

TableHeaders_None(settings, lines) == <<>>

\* headers = lines[0] when the pattern declares a header row
TableHeaders(settings, lines) ==
  IF settings.headers THEN <<lines[1]>> ELSE <<>>

RECURSIVE Reverse(_)
Reverse(s) == IF s = <<>> THEN <<>> ELSE Append(Reverse(Tail(s)), Head(s))

TableRows_KeepHeader(settings, lines) == lines

TableRows_Reversed(settings, lines) ==
  Reverse(IF settings.headers THEN Tail(lines) ELSE lines)

\* rows = lines.slice(1) when the pattern declares a header row, else lines
TableRows(settings, lines) ==
  IF settings.headers THEN Tail(lines) ELSE lines

parseTable(text, settings, isFirst, isLast) ==
  LET match == TableMatch(text, settings.startPattern, settings.endPattern)
  IN  IF match = <<>> THEN NoTable
      ELSE
        LET groups == match[1]
            body == SplitChar(groups.table, "\n")
            split == [k \in 1..Len(body) |-> splitColumns(Trim(body[k]), settings)]
            kept == SelectSeq(split, KeepLine)
            lines == [k \in 1..Len(kept) |-> kept[k].cells]
        IN  IF \E k \in 1..Len(split) : split[k].kind = "throw" THEN ThrownTable
            ELSE IF lines = <<>> THEN NoTable
            ELSE [kind  |-> "table",
                  value |->
                    [settings |-> [start_mark      |-> settings.startPattern,
                                   end_mark        |-> settings.endPattern,
                                   headers         |-> settings.headers,
                                   separator       |-> settings.separator,
                                   split_format    |-> settings.splitFormat,
                                   numeric_columns |-> settings.numericColumns],
                     headers  |-> TableHeaders(settings, lines),
                     rows     |-> TableRows(settings, lines),
                     preText  |-> IF isFirst THEN Trim(removeCommandLog(groups.pre))
                                             ELSE Undefined,
                     postText |-> IF isLast THEN Trim(removeCommandLog(groups.post))
                                            ELSE Undefined]]

\* the `content` of a parsed section, given its configuration and its tables
SectionContent_ByConfig(settings, tables, sectionText) ==
  IF settings.tables = <<>> THEN removeCommandLog(sectionText) ELSE Undefined

SectionContent_Raw(settings, tables, sectionText) ==
  IF tables = <<>> THEN sectionText ELSE Undefined

SectionContent(settings, tables, sectionText) ==
  IF tables = <<>> THEN removeCommandLog(sectionText) ELSE Undefined

NoSection == [kind |-> "null"]
ThrownSection == [kind |-> "throw"]

parseSection(text, settings) ==
  LET match == SectionMatch(text, settings.startPattern, settings.endPattern)
  IN  IF match = <<>> THEN NoSection
      ELSE
        LET sectionText == match[1]
            n == Len(settings.tables)
            results == [index \in 1..n |->
                          parseTable(sectionText, settings.tables[index],
                                     index = 1, index = n)]
            IsTable(r) == r.kind = "table"
            pushed == SelectSeq(results, IsTable)
            tables == [k \in 1..Len(pushed) |-> pushed[k].value]
        IN  IF \E index \in 1..n : results[index].kind = "throw" THEN ThrownSection
            ELSE [kind  |-> "section",
                  value |-> [title   |-> settings.name,
                             content |-> SectionContent(settings, tables, sectionText),
                             tables  |-> tables]]

\* sections.push(section)
push_Front(sections, section) == <<section>> \o sections

push(sections, section) ==
  Append(sections, section)

\* no detection and no validation at work
DetectorIdle ==
  /\ detContent = <<>>
  /\ detStatus = "idle"
  /\ detVersion = <<>>

ValidatorIdle ==
  /\ valStatus = "idle"
  /\ valInput = <<>>
  /\ valLoaded = "none"
  /\ valResult = <<>>

\* parseEngineConfig not called
ReaderIdle ==
  /\ rdLines = <<>>
  /\ rdStatus = "idle"
  /\ rdResult = <<>>

\* the application as mounted: the upload view, nothing being processed
AppIdle ==
  /\ appStatus = "idle"
  /\ appSource = "none"
  /\ appContent = <<>>
  /\ isProcessing = FALSE
  /\ parsedReport = <<>>
  /\ uploadError = <<>>

\* no parser at work
ParserIdle ==
  /\ rawText = <<>>
  /\ pText = <<>>
  /\ pSettings = <<>>
  /\ pStatus = "idle"
  /\ pIndex = 0
  /\ pSections = <<>>
  /\ pOrigin = <<>>
  /\ pYields = 0

(***************************************************************************)
(* loadEngineConfig, step by step between its suspensions                  *)
(***************************************************************************)

\* no resolution under way, nothing cached
ResolverFresh ==
  /\ parsePatternCache = <<>>
  /\ manifestCache = <<>>
  /\ callStatus = [c \in Calls |-> "idle"]
  /\ callVersion = [c \in Calls |-> <<>>]
  /\ callDefs = [c \in Calls |-> <<>>]
  /\ secState = [c \in Calls |-> <<>>]
  /\ secValue = [c \in Calls |-> <<>>]
  /\ callResult = [c \in Calls |-> NoResult]
  /\ callError = [c \in Calls |-> NoError]
  /\ callIO = [c \in Calls |-> NoIO]
  /\ callBase = [c \in Calls |-> "none"]
  /\ secLoad = [c \in Calls |-> <<>>]
  /\ settleOrder = [c \in Calls |-> <<>>]
  /\ manifestLoads = [f \in Folders |-> 0]
  /\ patternLoads = <<>>
  /\ starts = 0
  /\ clears = 0
  /\ probe = IdleProbe

InitResolver ==
  /\ baseDoc \in BaseDocs
  /\ ResolverFresh
  /\ ParserIdle
  /\ DetectorIdle
  /\ ValidatorIdle
  /\ ReaderIdle
  /\ AppIdle

InFlight(c) == callStatus[c] \in {"legacy", "base", "sections"}

\* a settled loadEngineConfig promise: its awaiting caller has not resumed yet
Settled(c) == callStatus[c] \in {"resolved", "rejected"}

\* The caller of a settled call resumes in the microtask that follows the
\* settlement, before the event loop runs any other task (a fetch completion,
\* a new user action): nothing else happens while a call is settled.
NoneSettled == \A c \in Calls : ~Settled(c)

\* a call starts: everything up to the first await (the calls being
\* interchangeable, a new call takes the lowest free slot)
LoadEngineConfig(c, version) ==
  /\ NoneSettled
  /\ ~InFlight(c)
  /\ \A d \in Calls : d < c => InFlight(d)
  /\ starts < MaxStarts
  /\ starts' = starts + 1
  /\ callVersion' = [callVersion EXCEPT ![c] = version]
  /\ IF version = V427
       THEN /\ callStatus' = [callStatus EXCEPT ![c] = "legacy"]
            /\ callError' = [callError EXCEPT ![c] = NoError]
            /\ callIO' = [callIO EXCEPT ![c] = [NoIO EXCEPT !.base = 1]]
       ELSE IF versionMap(version) = Undefined
         THEN /\ callStatus' = [callStatus EXCEPT ![c] = "rejected"]
              /\ callError' = [callError EXCEPT ![c] =
                   [message |-> "Unsupported engine version", version |-> version]]
              /\ callIO' = [callIO EXCEPT ![c] = NoIO]
         ELSE /\ callStatus' = [callStatus EXCEPT ![c] = "base"]
              /\ callError' = [callError EXCEPT ![c] = NoError]
              /\ callIO' = [callIO EXCEPT ![c] = [NoIO EXCEPT !.base = 1]]
  /\ UNCHANGED <<pvars, dvars, vvars, evars, avars>>
  /\ UNCHANGED <<baseDoc, parsePatternCache, manifestCache, callDefs, secState,
                 secValue, secLoad, settleOrder, callResult, callBase, manifestLoads,
                 patternLoads, clears, probe>>

\* loadUE427Config: the fetch of ue427.json has ended
LegacyDone(c, outcome) ==
  /\ NoneSettled
  /\ callStatus[c] = "legacy"
  /\ callBase' = [callBase EXCEPT ![c] = Ended(outcome)]
  /\ IF outcome = "ok"
       THEN /\ callStatus' = [callStatus EXCEPT ![c] = "resolved"]
            /\ callResult' = [callResult EXCEPT ![c] = ConvertLegacy(LegacyDocument)]
            /\ UNCHANGED callError
       ELSE /\ callStatus' = [callStatus EXCEPT ![c] = "rejected"]
            /\ callError' = [callError EXCEPT ![c] =
                 [message |-> "Failed to load UE4.27 config", version |-> V427]]
            /\ UNCHANGED callResult
  /\ UNCHANGED <<pvars, dvars, vvars, evars, avars>>
  /\ UNCHANGED <<baseDoc, parsePatternCache, manifestCache, callVersion, callDefs,
                 secState, secValue, callIO, secLoad, settleOrder, manifestLoads, patternLoads,
                 starts, clears, probe>>

\* keys of the sections of b (the SecBegin records of defs) selected by P
BeginKeys(version, defs, b, hows) ==
  {CacheKey(version, defs[i].parsePatternId) :
     i \in {j \in 1..Len(defs) : b[j].how \in hows}}

\* the base-settings fetch has ended: on success the document is parsed and
\* every section's callback runs up to its first await
BaseDone(c, outcome) ==
  /\ NoneSettled
  /\ callStatus[c] = "base"
  /\ callBase' = [callBase EXCEPT ![c] = Ended(outcome)]
  /\ LET version == callVersion[c]
         r == loadBaseEngineFileEnd(version, outcome)
     IN  IF ~r.ok
           THEN /\ callStatus' = [callStatus EXCEPT ![c] = "rejected"]
                /\ callError' = [callError EXCEPT ![c] = r.error]
                /\ UNCHANGED <<parsePatternCache, callDefs, secState, secValue,
                               callResult, callIO, secLoad, settleOrder, manifestLoads,
                               patternLoads>>
           ELSE LET defs == parseEngineConfig(baseDoc)
                    folder == getPatternFolder(version)
                    b == [i \in 1..Len(defs) |->
                            SecBegin(parsePatternCache, manifestCache, version, defs[i])]
                    values == [i \in 1..Len(defs) |->
                                 IF b[i].state = "settled"
                                   THEN <<ResolvedSection(defs[i], b[i].value)>>
                                   ELSE <<>>]
                    nManifest == Cardinality({i \in 1..Len(defs) : b[i].how = "fetch"})
                    nPattern == Cardinality({i \in 1..Len(defs) : b[i].how = "listed"})
                    absent == BeginKeys(version, defs, b, {"absent"})
                    listed == BeginKeys(version, defs, b, {"listed"})
                IN  /\ callDefs' = [callDefs EXCEPT ![c] = defs]
                    /\ secState' = [secState EXCEPT ![c] =
                         [i \in 1..Len(defs) |-> b[i].state]]
                    /\ secLoad' = [secLoad EXCEPT ![c] =
                         [i \in 1..Len(defs) |-> [NoLoad EXCEPT !.begin = b[i].how]]]
                    /\ secValue' = [secValue EXCEPT ![c] = values]
                    /\ settleOrder' = [settleOrder EXCEPT ![c] =
                         SelectSeq([i \in 1..Len(defs) |-> i],
                                   LAMBDA i : b[i].state = "settled")]
                    /\ parsePatternCache' =
                         [k \in (DOMAIN parsePatternCache) \cup absent |->
                            IF k \in absent THEN <<>> ELSE parsePatternCache[k]]
                    /\ manifestLoads' =
                         [manifestLoads EXCEPT ![folder] = Capped(@ + nManifest)]
                    /\ patternLoads' =
                         [k \in (DOMAIN patternLoads) \cup listed |->
                            Capped(Count(patternLoads, k)
                              + Cardinality({i \in 1..Len(defs) :
                                   /\ b[i].how = "listed"
                                   /\ CacheKey(version, defs[i].parsePatternId) = k}))]
                    /\ callIO' = [callIO EXCEPT ![c].manifest = nManifest,
                                                ![c].pattern = nPattern]
                    /\ IF AllSettled(values)
                         THEN /\ callStatus' = [callStatus EXCEPT ![c] = "resolved"]
                              /\ callResult' = [callResult EXCEPT ![c] =
                                   ResolvedConfig(version, values)]
                         ELSE /\ callStatus' = [callStatus EXCEPT ![c] = "sections"]
                              /\ UNCHANGED callResult
                    /\ UNCHANGED callError
  /\ UNCHANGED <<pvars, dvars, vvars, evars, avars>>
  /\ UNCHANGED <<baseDoc, manifestCache, callVersion, starts, clears, probe>>

\* section i of call c settles with parsePattern; Promise.all resolves once
\* every section has settled
Settle(c, i, parsePattern) ==
  LET values == PromiseAllSettle(secValue[c], i,
                                 ResolvedSection(callDefs[c][i], parsePattern))
  IN  /\ secValue' = [secValue EXCEPT ![c] = values]
      /\ secState' = [secState EXCEPT ![c][i] = "settled"]
      /\ settleOrder' = [settleOrder EXCEPT ![c] = Append(@, i)]
      /\ IF AllSettled(values)
           THEN /\ callStatus' = [callStatus EXCEPT ![c] = "resolved"]
                /\ callResult' = [callResult EXCEPT ![c] =
                     ResolvedConfig(callVersion[c], values)]
           ELSE UNCHANGED <<callStatus, callResult>>

\* the manifest fetch issued for section i of call c has ended
ManifestDone(c, i, outcome) ==
  /\ NoneSettled
  /\ callStatus[c] = "sections"
  /\ i \in 1..Len(callDefs[c])
  /\ secState[c][i] = "manifest"
  /\ LET version == callVersion[c]
         pid == callDefs[c][i].parsePatternId
         key == CacheKey(version, pid)
         folder == getPatternFolder(version)
         files == loadManifestEnd(folder, outcome)
     IN  /\ manifestCache' = Put(manifestCache, folder, files)
         /\ secLoad' = [secLoad EXCEPT ![c][i].manifest = Ended(outcome)]
         /\ IF manifestHas(files, pid)
              THEN /\ secState' = [secState EXCEPT ![c][i] = "pattern"]
                   /\ patternLoads' = Put(patternLoads, key, Capped(Count(patternLoads, key) + 1))
                   /\ callIO' = [callIO EXCEPT ![c].pattern = @ + 1]
                   /\ UNCHANGED <<parsePatternCache, secValue, callStatus,
                                  callResult, settleOrder>>
              ELSE /\ parsePatternCache' = Put(parsePatternCache, key, <<>>)
                   /\ Settle(c, i, <<>>)
                   /\ UNCHANGED <<patternLoads, callIO>>
  /\ UNCHANGED <<pvars, dvars, vvars, evars, avars>>
  /\ UNCHANGED <<baseDoc, callVersion, callDefs, callError, callBase,
                 manifestLoads, starts, clears, probe>>

\* the pattern fetch issued for section i of call c has ended
PatternDone(c, i, outcome) ==
  /\ NoneSettled
  /\ callStatus[c] = "sections"
  /\ i \in 1..Len(callDefs[c])
  /\ secState[c][i] = "pattern"
  /\ LET pid == callDefs[c][i].parsePatternId
         key == CacheKey(callVersion[c], pid)
         r == loadParsePatternEnd(outcome, pid)
     IN  /\ parsePatternCache' =
              IF r.store = "pattern" THEN Put(parsePatternCache, key, r.value)
              ELSE IF r.store = "null" THEN Put(parsePatternCache, key, <<>>)
              ELSE parsePatternCache
         /\ secLoad' = [secLoad EXCEPT ![c][i].pattern = Ended(outcome)]
         /\ Settle(c, i, r.value)
  /\ UNCHANGED <<pvars, dvars, vvars, evars, avars>>
  /\ UNCHANGED <<baseDoc, manifestCache, callVersion, callDefs, callError, callIO,
                 callBase, manifestLoads, patternLoads, starts, clears, probe>>

\* the awaiting caller takes the result or the error of a settled call
Deliver(c) ==
  /\ Settled(c)
  /\ callStatus' = [callStatus EXCEPT ![c] = "idle"]
  /\ callVersion' = [callVersion EXCEPT ![c] = <<>>]
  /\ callDefs' = [callDefs EXCEPT ![c] = <<>>]
  /\ secState' = [secState EXCEPT ![c] = <<>>]
  /\ secValue' = [secValue EXCEPT ![c] = <<>>]
  /\ secLoad' = [secLoad EXCEPT ![c] = <<>>]
  /\ settleOrder' = [settleOrder EXCEPT ![c] = <<>>]
  /\ callResult' = [callResult EXCEPT ![c] = NoResult]
  /\ callError' = [callError EXCEPT ![c] = NoError]
  /\ callIO' = [callIO EXCEPT ![c] = NoIO]
  /\ callBase' = [callBase EXCEPT ![c] = "none"]
  /\ UNCHANGED <<pvars, dvars, vvars, evars, avars>>
  /\ UNCHANGED <<baseDoc, parsePatternCache, manifestCache, manifestLoads,
                 patternLoads, starts, clears, probe>>

\* ConfigResolver.clearCache
ClearCache ==
  /\ NoneSettled
  /\ clears < MaxClears
  /\ clears' = clears + 1
  /\ parsePatternCache' = <<>>
  /\ patternLoads' = <<>>
  /\ UNCHANGED <<pvars, dvars, vvars, evars, avars>>
  /\ UNCHANGED <<baseDoc, manifestCache, callStatus, callVersion, callDefs, secState,
                 secValue, callResult, callError, callIO, callBase, secLoad, settleOrder,
                 manifestLoads, starts, probe>>

ProbeIds == {<<"m", "e", "m">>, <<"o", "b", "j", "_", "l", "i", "s", "t">>}

\* a direct call of a PatternManifest operation, up to its first await
ProbeStart(op, folder, patternId) ==
  /\ NoneSettled
  /\ probe.status \in {"idle", "done"}
  /\ probe.count < MaxProbes
  /\ IF folder \in DOMAIN manifestCache
       THEN /\ probe' = [status |-> "done", op |-> op, folder |-> folder,
                         patternId |-> patternId, loaded |-> "cached",
                         answer |-> ProbeAnswer(op, manifestCache[folder], patternId),
                         count |-> probe.count + 1]
            /\ UNCHANGED manifestLoads
       ELSE /\ probe' = [status |-> "fetch", op |-> op, folder |-> folder,
                         patternId |-> patternId, loaded |-> "none",
                         answer |-> IdleProbe.answer, count |-> probe.count + 1]
            /\ manifestLoads' = [manifestLoads EXCEPT ![folder] = Capped(@ + 1)]
  /\ UNCHANGED <<pvars, dvars, vvars, evars, avars>>
  /\ UNCHANGED <<baseDoc, parsePatternCache, manifestCache, callStatus, callVersion,
                 callDefs, secState, secValue, callResult, callError, callIO,
                 callBase, secLoad, settleOrder, patternLoads, starts, clears>>

\* PatternManifest.patternExists called directly
PatternExists(folder, patternId) == ProbeStart("patternExists", folder, patternId)

\* PatternManifest.getAvailablePatterns called directly
GetAvailablePatterns(folder) == ProbeStart("getAvailablePatterns", folder, <<>>)

\* the manifest fetch of the direct call has ended
ProbeDone(outcome) ==
  /\ NoneSettled
  /\ probe.status = "fetch"
  /\ LET files == loadManifestEnd(probe.folder, outcome)
     IN  /\ manifestCache' = Put(manifestCache, probe.folder, files)
         /\ probe' = [probe EXCEPT !.status = "done", !.loaded = Ended(outcome),
                                   !.answer = ProbeAnswer(probe.op, files, probe.patternId)]
  /\ UNCHANGED <<pvars, dvars, vvars, evars, avars>>
  /\ UNCHANGED <<baseDoc, parsePatternCache, callStatus, callVersion, callDefs,
                 secState, secValue, callResult, callError, callIO, callBase,
                 secLoad, settleOrder, manifestLoads, patternLoads, starts, clears>>

\* one loadEngineConfig at a time (a caller that awaits each call before the
\* next), with clearCache called at any moment between two steps
NextResolver ==
  \/ \E version \in VersionInputs : LoadEngineConfig(1, version)
  \/ Deliver(1)
  \/ \E outcome \in FetchOutcomes : LegacyDone(1, outcome)
  \/ \E outcome \in FetchOutcomes : BaseDone(1, outcome)
  \/ \E i \in 1..MaxSections, outcome \in FetchOutcomes : ManifestDone(1, i, outcome)
  \/ \E i \in 1..MaxSections, outcome \in PatternOutcomes : PatternDone(1, i, outcome)
  \/ ClearCache

SpecResolver == InitResolver /\ [][NextResolver]_vars

\* overlapping loadEngineConfig calls
NextOverlap ==
  \/ \E c \in Calls, version \in VersionInputs : LoadEngineConfig(c, version)
  \/ \E c \in Calls : Deliver(c)
  \/ \E c \in Calls, outcome \in FetchOutcomes : LegacyDone(c, outcome)
  \/ \E c \in Calls, outcome \in FetchOutcomes : BaseDone(c, outcome)
  \/ \E c \in Calls, i \in 1..MaxSections, outcome \in FetchOutcomes :
        ManifestDone(c, i, outcome)
  \/ \E c \in Calls, i \in 1..MaxSections, outcome \in PatternOutcomes :
        PatternDone(c, i, outcome)

SpecOverlap == InitResolver /\ [][NextOverlap]_vars

\* loadEngineConfig calls for one modern version, one at a time, together
\* with direct calls of the PatternManifest operations
NextManifest ==
  \/ LoadEngineConfig(1, V56)
  \/ Deliver(1)
  \/ \E outcome \in FetchOutcomes : BaseDone(1, outcome)
  \/ \E i \in 1..MaxSections, outcome \in FetchOutcomes : ManifestDone(1, i, outcome)
  \/ \E i \in 1..MaxSections, outcome \in PatternOutcomes : PatternDone(1, i, outcome)
  \/ \E folder \in Folders, patternId \in ProbeIds : PatternExists(folder, patternId)
  \/ \E folder \in Folders : GetAvailablePatterns(folder)
  \/ \E outcome \in FetchOutcomes : ProbeDone(outcome)

SpecManifest == InitResolver /\ [][NextManifest]_vars

(***************************************************************************)
(* Properties of configuration resolution                                  *)
(***************************************************************************)

ModernSupported == {V53, V56}

\* the tables section i of call c must carry, given how its own pattern
\* resolution went: the tables of its own pattern document after a cache hit
\* or a successful load, none otherwise
OwnTables(c, i) ==
  IF secLoad[c][i].begin = "hit" \/ secLoad[c][i].pattern = "ok"
    THEN PatternDocument(callDefs[c][i].parsePatternId).tables
    ELSE <<>>

\* C1: when the base-settings fetch of a modern version fails, the call is
\* rejected with an error that carries the version, and the call has issued
\* no manifest fetch and no pattern fetch.
C1_BaseLoadFailureIsFatal ==
  \A c \in Calls :
    (callBase[c] = "failed" /\ callVersion[c] # V427) =>
      /\ callStatus[c] = "rejected"
      /\ callError[c].version = callVersion[c]
      /\ callError[c].message # ""
      /\ callIO[c].manifest = 0
      /\ callIO[c].pattern = 0
      /\ callDefs[c] = <<>>

C1_Witness ==
  \E c \in Calls :
    /\ callBase[c] = "failed"
    /\ callVersion[c] \in ModernSupported
    /\ callStatus[c] = "rejected"
    /\ manifestLoads["ue5"] > 0

\* C2: a section whose pattern load failed (in any of the failing ways)
\* resolves with zero tables, the call is not rejected by it, and every other
\* settled section carries exactly what its own resolution gives.
C2_PatternFailureIsLocal ==
  \A c \in Calls :
    \A i \in 1..Len(secLoad[c]) :
      secLoad[c][i].pattern = "failed" =>
        /\ callStatus[c] \in {"sections", "resolved"}
        /\ callStatus[c] = "resolved" <=> AllSettled(secValue[c])
        /\ secValue[c][i] = <<ResolvedSection(callDefs[c][i], <<>>)>>
        /\ \A j \in 1..Len(secLoad[c]) :
             (j # i /\ secState[c][j] = "settled") =>
               secValue[c][j] =
                 <<[ResolvedSection(callDefs[c][j], <<>>)
                      EXCEPT !.tables = OwnTables(c, j)]>>
        /\ callStatus[c] = "resolved" =>
             callResult[c].sections = [j \in 1..Len(secValue[c]) |-> secValue[c][j][1]]

C2_Witness ==
  \E c \in Calls :
    /\ callStatus[c] = "resolved"
    /\ Len(secLoad[c]) = 2
    /\ secLoad[c][1].pattern = "failed"
    /\ secLoad[c][2].pattern = "ok"
    /\ callResult[c].sections[1].tables = <<>>
    /\ callResult[c].sections[2].tables # <<>>

\* C3: a resolved modern configuration has one section per section definition
\* of the base-settings document, in definition order, each with the name
\* and markers of its own definition and the tables of its own pattern id,
\* whatever the order in which the sections settled.
C3_SectionOrderPreserved ==
  \A c \in Calls :
    (callStatus[c] = "resolved" /\ callVersion[c] # V427) =>
      LET defs == parseEngineConfig(baseDoc)
          out == callResult[c].sections
      IN  /\ callResult[c].version = callVersion[c]
          /\ Len(out) = Len(defs)
          /\ \A i \in 1..Len(defs) :
               /\ out[i].name = defs[i].name
               /\ out[i].startPattern = defs[i].startPattern
               /\ out[i].endPattern = defs[i].endPattern
               /\ out[i].tables = OwnTables(c, i)

\* a call resolved although its second section settled before its first, the
\* two carrying different tables
C3_Witness ==
  \E c \in Calls :
    /\ callStatus[c] = "resolved"
    /\ callVersion[c] \in ModernSupported
    /\ settleOrder[c] = <<2, 1>>
    /\ callResult[c].sections[1].tables # <<>>
    /\ callResult[c].sections[2].tables # <<>>
    /\ callResult[c].sections[1].tables # callResult[c].sections[2].tables

\* C4: with no clearCache in between, no cache key has its pattern resource
\* fetched more than once.
C4_KeyFetchedAtMostOnce ==
  \A k \in DOMAIN patternLoads : patternLoads[k] <= 1

\* C5: the manifest of a version family is fetched at most once.
C5_ManifestLoadedOnce ==
  \A f \in Folders : manifestLoads[f] <= 1

\* C6: a failed manifest load makes patternExists answer false without an
\* error: a direct call returns false, and a section resolving through it
\* settles with zero tables, without a pattern fetch and without rejecting
\* the call.
C6_ManifestFailureMeansAbsent ==
  /\ (probe.status = "done" /\ probe.loaded = "failed") =>
       /\ ~probe.answer.exists
       /\ probe.answer.names = {}
  /\ \A c \in Calls :
       \A i \in 1..Len(secLoad[c]) :
         secLoad[c][i].manifest = "failed" =>
           /\ callStatus[c] \in {"sections", "resolved"}
           /\ secState[c][i] = "settled"
           /\ secLoad[c][i].pattern = "none"
           /\ secValue[c][i] = <<ResolvedSection(callDefs[c][i], <<>>)>>

C6_Witness ==
  \E c \in Calls :
    /\ callStatus[c] = "resolved"
    /\ Len(secLoad[c]) = 2
    /\ \A i \in 1..2 : secLoad[c][i].manifest = "failed"
    /\ \A i \in 1..2 : callResult[c].sections[i].tables = <<>>
    /\ probe.status = "done"
    /\ probe.op = "patternExists"
    /\ probe.loaded = "cached"
    /\ ~probe.answer.exists

\* C7: clearCache leaves no pattern cache entry and no cached manifest.
C7_ClearCacheForgetsEverything ==
  [][clears' # clears =>
       (DOMAIN parsePatternCache' = {} /\ DOMAIN manifestCache' = {})]_vars

(***************************************************************************)
(* MemreportParser.parse, step by step                                     *)
(***************************************************************************)

MaxLines == 3

\* parse yields to the host each time this many more sections are appended
YieldEvery == 5

\* the lines a report is made of: a section start with a table start and a
\* header row, a data row, a table end with a section end (also before a
\* carriage return), a one-line section without a table, a one-line section
\* with a table, a command echo, an end marker that does not end its line,
\* and a blank line
ReportLines ==
  {<<"B", " ", "S", " ", "h", ",", "k">>,
   <<"a", " ", "b", ",", " ", "c", ",", "d">>,
   <<"E", " ", "F">>,
   <<"B", " ", "x", " ", "F">>,
   <<"G", " ", "S", " ", "u", " ", "E", " ", "H">>,
   <<"E", " ", "F", "\r">>,
   <<"M", "e", "m", "R", "e", "p", "o", "r", "t", ":", " ", "B", "e", "g", "i", "n", " ", "c", "o", "m", "m", "a", "n", "d", " ", "\"", "x", "\"">>,
   <<"F", " ", "x">>,
   <<>>}

\* a TableParsePattern
TableOf(start, end, hasHeaders, separator, splitFormat) ==
  [name           |-> start,
   startPattern   |-> start,
   endPattern     |-> end,
   headers        |-> hasHeaders,
   separator      |-> separator,
   splitFormat    |-> splitFormat,
   numericColumns |-> <<>>]

\* a ResolvedSectionConfig
SectionOf(name, start, end, tables) ==
  [name |-> name, startPattern |-> start, endPattern |-> end, tables |-> tables]

NameObj == <<"O", "b", "j">>
NameRHI == <<"R", "H", "I">>
NameSeam == <<"S", "e", "a", "m">>
NameBad == <<"B", "a", "d">>

\* the resolved legacy configuration
SettingsLegacy == ConvertLegacy(LegacyDocument).sections

\* a section with three table patterns, a section whose start marker spans a
\* line break, and a section with one table pattern, the last one configured
\* after a section that reports print before it
SettingsTables ==
  << SectionOf(NameObj, <<"B">>, <<"F">>,
               << TableOf(<<"S">>, <<"E">>, TRUE, <<",">>, Undefined),
                  TableOf(<<"a">>, <<"E">>, FALSE, <<>>, <<FormatLabelRest>>),
                  TableOf(<<"h">>, <<"F">>, FALSE, <<>>, Undefined) >>),
     SectionOf(NameSeam, <<"F", ".", "G">>, <<"H">>, <<>>),
     SectionOf(NameRHI, <<"G">>, <<"H">>,
               << TableOf(<<"u">>, <<"E">>, FALSE, <<>>, Undefined) >>) >>

\* seven plain-text sections, the second and the last with markers of their own
SettingsMany ==
  [i \in 1..7 |->
     SectionOf(<<"s", <<"1", "2", "3", "4", "5", "6", "7">>[i]>>,
               IF i \in {2, 7} THEN <<"G">> ELSE <<"B">>,
               IF i \in {2, 7} THEN <<"H">> ELSE <<"F">>,
               <<>>)]

\* a table pattern whose extraction rule is not a valid regular expression
SettingsBroken ==
  << SectionOf(NameRHI, <<"G">>, <<"H">>, <<>>),
     SectionOf(NameBad, <<"B">>, <<"F">>,
               << TableOf(<<"S">>, <<"E">>, FALSE, <<>>, <<FormatUnclosed>>) >>) >>

\* extraction rules with two groups on a body whose last line they do not
\* match, with no group, with three groups, the last one optional, and with
\* two groups on a one-line table
SettingsFormats ==
  << SectionOf(NameObj, <<"B">>, <<"F">>,
               << TableOf(<<"B">>, <<"F">>, TRUE, <<>>, <<FormatLabelRest>>),
                  TableOf(<<"S">>, <<"E">>, FALSE, <<>>, <<FormatNoGroups>>),
                  TableOf(<<"S">>, <<"E">>, FALSE, <<>>, <<FormatThree>>) >>),
     SectionOf(NameRHI, <<"G">>, <<"H">>,
               << TableOf(<<"S">>, <<"E">>, TRUE, <<>>, <<FormatLabelRest>>) >>) >>

ParserSettings ==
  {SettingsLegacy, SettingsTables, SettingsMany, SettingsBroken, SettingsFormats}

\* parse never yielding
ShouldYield_Never(count) == FALSE

\* if (sections.length % 5 === 0)
ShouldYield(count) ==
  count % YieldEvery = 0

\* new MemreportParser(content, title, settings)
InitParser ==
  /\ \E n \in 1..MaxLines : \E ls \in [1..n -> ReportLines] : rawText = JoinLines(ls)
  /\ pSettings \in ParserSettings
  /\ pText = NewParserText(rawText)
  /\ pStatus = "constructed"
  /\ pIndex = 0
  /\ pSections = <<>>
  /\ pOrigin = <<>>
  /\ pYields = 0
  /\ baseDoc = <<>>
  /\ ResolverFresh
  /\ DetectorIdle
  /\ ValidatorIdle
  /\ ReaderIdle
  /\ AppIdle

\* parse() is called: the code in front of the loop
Parse ==
  /\ pStatus = "constructed"
  /\ pStatus' = "running"
  /\ pIndex' = 1
  /\ pSections' = <<>>
  /\ UNCHANGED <<rawText, pText, pSettings, pOrigin, pYields>>
  /\ UNCHANGED <<rvars, dvars, vvars, evars, avars>>

\* one iteration of the loop: a section is parsed and, unless null, appended;
\* an exception of parseSection rejects the promise of parse
ParseSection ==
  /\ pStatus = "running"
  /\ pIndex <= Len(pSettings)
  /\ LET section == parseSection(pText, pSettings[pIndex])
     IN  IF section.kind = "throw"
           THEN /\ pStatus' = "failed"
                /\ UNCHANGED <<pIndex, pSections, pOrigin, pYields>>
         ELSE IF section.kind = "null"
           THEN /\ pIndex' = pIndex + 1
                /\ UNCHANGED <<pStatus, pSections, pOrigin, pYields>>
         ELSE /\ pSections' = push(pSections, section.value)
              /\ pOrigin' = Append(pOrigin, pIndex)
              /\ pIndex' = pIndex + 1
              /\ IF ShouldYield(Len(pSections'))
                   THEN /\ pStatus' = "yield"
                        /\ pYields' = pYields + 1
                   ELSE UNCHANGED <<pStatus, pYields>>
  /\ UNCHANGED <<rawText, pText, pSettings>>
  /\ UNCHANGED <<rvars, dvars, vvars, evars, avars>>

\* the timer of a yield fires and the loop goes on
Resume ==
  /\ pStatus = "yield"
  /\ pStatus' = "running"
  /\ UNCHANGED <<rawText, pText, pSettings, pIndex, pSections, pOrigin, pYields>>
  /\ UNCHANGED <<rvars, dvars, vvars, evars, avars>>

\* the loop is over: parse returns the document
Return ==
  /\ pStatus = "running"
  /\ pIndex > Len(pSettings)
  /\ pStatus' = "done"
  /\ UNCHANGED <<rawText, pText, pSettings, pIndex, pSections, pOrigin, pYields>>
  /\ UNCHANGED <<rvars, dvars, vvars, evars, avars>>

NextParser ==
  \/ Parse
  \/ ParseSection
  \/ Resume
  \/ Return

SpecParser == InitParser /\ [][NextParser]_vars

(***************************************************************************)
(* Properties of the parser                                                *)
(***************************************************************************)

\* the combined start-to-end matcher of section configuration i finds a match
\* in the normalized report text
SectionFound(i) ==
  SectionMatch(NormalizeEol(rawText), pSettings[i].startPattern,
               pSettings[i].endPattern) # <<>>

\* the returned document has a section for configuration i
HasSectionFor(i) ==
  \E k \in 1..Len(pSections) :
    pOrigin[k] = i /\ pSections[k].title = pSettings[i].name

\* C8: the document parse returns has a section for a configured section if
\* and only if the combined matcher of that section finds a match in the
\* normalized text; a section that is not found never makes parse fail: a
\* failure of parse arises in a section that was found.
C8_SectionPresentIffMatched ==
  /\ pStatus = "done" =>
       \A i \in 1..Len(pSettings) : HasSectionFor(i) <=> SectionFound(i)
  /\ pStatus = "failed" => SectionFound(pIndex)

\* a returned document that has one configured section and leaves out another
C8_Witness ==
  /\ pStatus = "done"
  /\ \E i, j \in 1..Len(pSettings) :
       /\ SectionFound(i) /\ HasSectionFor(i)
       /\ ~SectionFound(j) /\ ~HasSectionFor(j)

\* table k of the parsed section came from table pattern j of the section
FromPattern(table, pattern) ==
  /\ table.settings.start_mark = pattern.startPattern
  /\ table.settings.end_mark = pattern.endPattern
  /\ table.settings.headers = pattern.headers
  /\ table.settings.separator = pattern.separator
  /\ table.settings.split_format = pattern.splitFormat

\* C9: the sections of the document are titled after configurations taken in
\* increasing configuration order, and the tables of every section come from
\* table patterns of its configuration taken in increasing pattern order.
C9_OrderFollowsConfiguration ==
  /\ Len(pOrigin) = Len(pSections)
  /\ \A k \in 1..Len(pSections) :
       /\ pOrigin[k] \in 1..Len(pSettings)
       /\ pSections[k].title = pSettings[pOrigin[k]].name
       /\ \A m \in 1..Len(pSections) : k < m => pOrigin[k] < pOrigin[m]
       /\ LET tables == pSections[k].tables
              patterns == pSettings[pOrigin[k]].tables
          IN  \E f \in [1..Len(tables) -> 1..Len(patterns)] :
                /\ \A a, b \in 1..Len(tables) : a < b => f[a] < f[b]
                /\ \A a \in 1..Len(tables) : FromPattern(tables[a], patterns[f[a]])

\* a returned document whose first section stands after its second one in the
\* report, with a configured section left out between them, and whose first
\* section has the tables of its first and third patterns only
C9_Witness ==
  /\ pStatus = "done"
  /\ pSettings = SettingsTables
  /\ pOrigin = <<1, 3>>
  /\ rawText[1] = "G"
  /\ Len(pSections[1].tables) = 2
  /\ pSections[1].tables[1].settings.start_mark = <<"S">>
  /\ pSections[1].tables[2].settings.start_mark = <<"h">>

\* C10 as stated: a parsed section whose configuration has one or more table
\* patterns never carries content.
C10_TablePatternsMeanNoContent ==
  \A k \in 1..Len(pSections) :
    pSettings[pOrigin[k]].tables # <<>> => pSections[k].content = Undefined

\* C10: a parsed section whose configuration has one or more table patterns
\* carries content exactly when none of its patterns produced a table; with a
\* non-empty table list its content is absent.
C10_ContentIffNoTableParsed ==
  \A k \in 1..Len(pSections) :
    pSettings[pOrigin[k]].tables # <<>> =>
      (pSections[k].content = Undefined <=> pSections[k].tables # <<>>)

\* a returned document with two sections configured with table patterns: one
\* with a table and no content, one with content and no table
C10_Witness ==
  /\ pStatus = "done"
  /\ \E k, m \in 1..Len(pSections) :
       /\ pSettings[pOrigin[k]].tables # <<>>
       /\ pSections[k].tables # <<>>
       /\ pSections[k].content = Undefined
       /\ pSettings[pOrigin[m]].tables # <<>>
       /\ pSections[m].tables = <<>>
       /\ pSections[m].content # Undefined

\* the span the combined matcher of configuration i matches in the text
SpanOf(i) ==
  SectionMatch(NormalizeEol(rawText), pSettings[i].startPattern,
               pSettings[i].endPattern)[1]

\* the text with each of its command-echo lines emptied
WithoutEchoLines(text) ==
  LET ls == SplitChar(text, "\n")
  IN  JoinLines([k \in 1..Len(ls) |-> IF EchoLine(ls[k]) THEN <<>> ELSE ls[k]])

\* C11: a parsed section whose configuration has no table pattern has an
\* empty table list, and its content is its matched span with every
\* command-echo line removed.
C11_PlainSectionContent ==
  \A k \in 1..Len(pSections) :
    pSettings[pOrigin[k]].tables = <<>> =>
      /\ pSections[k].tables = <<>>
      /\ pSections[k].content = WithoutEchoLines(SpanOf(pOrigin[k]))

\* a returned document with a plain-text section whose span holds a
\* command-echo line between two other lines
C11_Witness ==
  /\ pStatus = "done"
  /\ \E k \in 1..Len(pSections) :
       /\ pSettings[pOrigin[k]].tables = <<>>
       /\ pSections[k].content # SpanOf(pOrigin[k])
       /\ pSections[k].content # Undefined
       /\ Len(SplitChar(pSections[k].content, "\n")) = 3
       /\ SplitChar(pSections[k].content, "\n")[2] = <<>>

\* the header row of a parsed table, when it has one, followed by its rows
AllRows(table) == table.headers \o table.rows

\* the trimmed lines of the table body that the markers of table a of parsed
\* section k isolate in the span of the section
BodyLines(k, a) ==
  LET settings == pSections[k].tables[a].settings
      body == TableMatch(SpanOf(pOrigin[k]), settings.start_mark,
                         settings.end_mark)[1].table
      ls == SplitChar(body, "\n")
  IN  [j \in 1..Len(ls) |-> Trim(ls[j])]

\* every cell of the row is a piece of the line
CellsFrom(row, line) == \A c \in 1..Len(row) : Includes(line, row[c])

\* C12: in every parsed table each row, the header row included, has at least
\* one cell, and the rows come from distinct table-body lines that are not
\* blank after trimming.
C12_RowsNeverEmptyNorBlank ==
  \A k \in 1..Len(pSections) : \A a \in 1..Len(pSections[k].tables) :
    LET rows == AllRows(pSections[k].tables[a])
        lines == BodyLines(k, a)
    IN  /\ \A j \in 1..Len(rows) : Len(rows[j]) >= 1
        /\ \E f \in [1..Len(rows) -> 1..Len(lines)] :
             /\ \A i, j \in 1..Len(rows) : i # j => f[i] # f[j]
             /\ \A j \in 1..Len(rows) :
                  lines[f[j]] # <<>> /\ CellsFrom(rows[j], lines[f[j]])

\* a returned document with a table split by a separator and a table split
\* by an extraction rule, each from a body that has a blank line
C12_Witness ==
  /\ pStatus = "done"
  /\ \E k \in 1..Len(pSections) : \E a, b \in 1..Len(pSections[k].tables) :
       /\ Truthy(pSections[k].tables[a].settings.separator)
       /\ Truthy(pSections[k].tables[b].settings.split_format)
       /\ \E j \in 1..Len(BodyLines(k, a)) : BodyLines(k, a)[j] = <<>>
       /\ \E j \in 1..Len(BodyLines(k, b)) : BodyLines(k, b)[j] = <<>>
       /\ Len(AllRows(pSections[k].tables[a])) >= 2

\* C13: in every parsed table the header row followed by the rows comes from
\* table-body lines taken in increasing line order: a row of an earlier line
\* stands before a row of a later line.
C13_RowsInSourceOrder ==
  \A k \in 1..Len(pSections) : \A a \in 1..Len(pSections[k].tables) :
    LET rows == AllRows(pSections[k].tables[a])
        lines == BodyLines(k, a)
    IN  \E f \in [1..Len(rows) -> 1..Len(lines)] :
          /\ \A i, j \in 1..Len(rows) : i < j => f[i] < f[j]
          /\ \A j \in 1..Len(rows) : CellsFrom(rows[j], lines[f[j]])

\* a returned document with a table of two data rows whose lines differ
C13_Witness ==
  /\ pStatus = "done"
  /\ \E k \in 1..Len(pSections) : \E a \in 1..Len(pSections[k].tables) :
       LET table == pSections[k].tables[a]
       IN  /\ Len(table.rows) >= 2
           /\ table.rows[1] # table.rows[2]
           /\ ~CellsFrom(table.rows[2], BodyLines(k, a)[1])

\* the table pattern that table a of parsed section k was parsed with
PatternOf(k, a) ==
  LET patterns == pSettings[pOrigin[k]].tables
  IN  patterns[CHOOSE p \in 1..Len(patterns) :
                 FromPattern(pSections[k].tables[a], patterns[p])]

\* the rows obtained from the body of table a of parsed section k, line by
\* line
ObtainedRows(k, a) ==
  LET lines == BodyLines(k, a)
      split == [j \in 1..Len(lines) |-> splitColumns(lines[j], PatternOf(k, a))]
      kept == SelectSeq(split, KeepLine)
  IN  [j \in 1..Len(kept) |-> kept[j].cells]

\* C14: when the pattern declares a header row, headers is the first row
\* obtained from the body and rows holds the remaining ones in order; when it
\* does not, headers is absent and rows holds every row obtained.
C14_HeaderRowSplit ==
  \A k \in 1..Len(pSections) : \A a \in 1..Len(pSections[k].tables) :
    LET table == pSections[k].tables[a]
        obtained == ObtainedRows(k, a)
    IN  IF PatternOf(k, a).headers
          THEN /\ table.headers = <<obtained[1]>>
               /\ table.rows = SubSeq(obtained, 2, Len(obtained))
          ELSE /\ table.headers = <<>>
               /\ table.rows = obtained

\* a returned document with a table that has a header row and a data row, and
\* a table without a header row that has two rows
C14_Witness ==
  /\ pStatus = "done"
  /\ \E k \in 1..Len(pSections) : \E a, b \in 1..Len(pSections[k].tables) :
       /\ PatternOf(k, a).headers
       /\ pSections[k].tables[a].headers # <<>>
       /\ Len(pSections[k].tables[a].rows) >= 1
       /\ ~PatternOf(k, b).headers
       /\ pSections[k].tables[b].headers = <<>>
       /\ Len(pSections[k].tables[b].rows) >= 2

\* the number of commas of a string
Commas(s) == Cardinality({i \in 1..Len(s) : s[i] = ","})

\* the groups an extraction rule takes from a line: <<>> without a match
GroupsOf(pattern, line) == RegExpExec(pattern.splitFormat[1], line)

\* the line yields a row: it is not blank and, under an extraction rule, the
\* rule matches it with at least one group
Yields(pattern, line) ==
  /\ line # <<>>
  /\ Truthy(pattern.splitFormat) =>
       (GroupsOf(pattern, line) # <<>> /\ GroupsOf(pattern, line)[1] # <<>>)

\* the number of cells the line splits into
CellCount(pattern, line) ==
  IF Truthy(pattern.splitFormat)
    THEN LET groups == GroupsOf(pattern, line)[1]
         IN  IF Len(groups) = 2 /\ Commas(groups[2]) >= 1
               THEN Commas(groups[2]) + 2
               ELSE Len(groups)
  ELSE IF Truthy(pattern.separator)
    THEN Cardinality({i \in 1..Len(line) : line[i] = pattern.separator[1]}) + 1
    ELSE 1

\* the body lines of table a of parsed section k that yield a row, in order
YieldingLines(k, a) ==
  LET YieldsRow(line) == Yields(PatternOf(k, a), line)
  IN  SelectSeq(BodyLines(k, a), YieldsRow)

\* the body lines of table a of parsed section k that are not blank
NonBlankLines(k, a) ==
  LET NonBlank(line) == line # <<>>
  IN  SelectSeq(BodyLines(k, a), NonBlank)

\* C15 as stated: in a parsed table whose pattern declares a header row, the
\* number of rows is the number of non-blank body lines minus one, and every
\* data row has as many cells as the header row.
C15_HeaderTableCounts ==
  \A k \in 1..Len(pSections) : \A a \in 1..Len(pSections[k].tables) :
    LET table == pSections[k].tables[a]
    IN  PatternOf(k, a).headers =>
          /\ Len(table.rows) = Len(NonBlankLines(k, a)) - 1
          /\ \A j \in 1..Len(table.rows) :
               Len(table.rows[j]) = Len(table.headers[1])

\* C15: in a parsed table whose pattern declares a header row, the number of
\* rows is the number of body lines that yield a row minus one (a non-blank
\* line that the extraction rule does not match yields none), and the header
\* row and every data row have the number of cells of their own line.
C15_HeaderTableCountsPerLine ==
  \A k \in 1..Len(pSections) : \A a \in 1..Len(pSections[k].tables) :
    LET table == pSections[k].tables[a]
        yielding == YieldingLines(k, a)
    IN  PatternOf(k, a).headers =>
          /\ Len(table.headers) = 1
          /\ Len(table.rows) = Len(yielding) - 1
          /\ Len(table.headers[1]) = CellCount(PatternOf(k, a), yielding[1])
          /\ \A j \in 1..Len(table.rows) :
               Len(table.rows[j]) = CellCount(PatternOf(k, a), yielding[j + 1])

\* a returned document with a header table that lost a non-blank body line
\* and has a data row with more cells than its header row
C15_Witness ==
  /\ pStatus = "done"
  /\ \E k \in 1..Len(pSections) : \E a \in 1..Len(pSections[k].tables) :
       LET table == pSections[k].tables[a]
       IN  /\ PatternOf(k, a).headers
           /\ Len(table.rows) >= 1
           /\ Len(table.rows) < Len(NonBlankLines(k, a)) - 1
           /\ Len(table.rows[1]) > Len(table.headers[1])

\* C16: a row obtained with an extraction rule that yields exactly two cells,
\* the second with N >= 1 commas, has N + 2 cells: the label, then the N + 1
\* comma-separated values in order; otherwise the row is the extracted cells
\* unchanged, an optional group that matched nothing being an empty cell.
C16_CommaExpansion ==
  \A k \in 1..Len(pSections) : \A a \in 1..Len(pSections[k].tables) :
    Truthy(PatternOf(k, a).splitFormat) =>
      LET rows == AllRows(pSections[k].tables[a])
          yielding == YieldingLines(k, a)
      IN  /\ Len(rows) = Len(yielding)
          /\ \A j \in 1..Len(rows) :
               LET cells == GroupsOf(PatternOf(k, a), yielding[j])[1]
                   N == Commas(cells[2])
               IN  IF Len(cells) = 2 /\ N >= 1
                     THEN /\ Len(rows[j]) = N + 2
                          /\ rows[j][1] = cells[1]
                          /\ \A v \in 1..(N + 1) :
                               rows[j][v + 1] = Trim(SplitChar(cells[2], ",")[v])
                     ELSE rows[j] = cells

\* a returned document with a row of a label and three comma-separated
\* values and a row whose optional third group matched nothing
C16_Witness ==
  /\ pStatus = "done"
  /\ \E k \in 1..Len(pSections) :
       \E a, b \in 1..Len(pSections[k].tables) :
         /\ PatternOf(k, a).splitFormat = <<FormatLabelRest>>
         /\ \E j \in 1..Len(pSections[k].tables[a].rows) :
              Len(pSections[k].tables[a].rows[j]) = 4
         /\ PatternOf(k, b).splitFormat = <<FormatThree>>
         /\ \E j \in 1..Len(pSections[k].tables[b].rows) :
              /\ Len(pSections[k].tables[b].rows[j]) = 3
              /\ pSections[k].tables[b].rows[j][3] = <<>>

\* C17: parse never returns a document when a table pattern of the
\* configuration carries an extraction rule that is not a valid pattern.
C17_MalformedRuleFailsParse ==
  pStatus = "done" =>
    \A i \in 1..Len(pSettings) : \A p \in 1..Len(pSettings[i].tables) :
      Truthy(pSettings[i].tables[p].splitFormat) =>
        RegExpValid(pSettings[i].tables[p].splitFormat[1])

(***************************************************************************)
(* detectUEVersion on report contents                                      *)
(***************************************************************************)

MaxPieces == 3

PieceEpicApp4 ==
  <<"e", "p", "i", "c", "a", "p", "p", "=", "U", "E", "_", "4">>
PieceNan ==
  <<"N", "a", "n">>
PieceIte ==
  <<"i", "t", "e", "\n">>
PieceLower ==
  <<"l", "u", "m", "e", "n", " ">>

\* the pieces a report content is a concatenation of: the markers, an
\* environment string of another major version, a marker cut in two, and a
\* marker in lower case
ContentPieces ==
  {MarkLumen, MarkStatNanite, MarkRhiSummary, MarkCoarseMesh, MarkStreamingSources,
   MarkEpicApp5, PieceEpicApp4, PieceNan, PieceIte, PieceLower}

RECURSIVE Concat(_)
Concat(pieces) ==
  IF pieces = <<>> THEN <<>> ELSE Head(pieces) \o Concat(Tail(pieces))

InitDetect ==
  /\ \E n \in 0..MaxPieces : \E ps \in [1..n -> ContentPieces] :
        detContent = Concat(ps)
  /\ detStatus = "called"
  /\ detVersion = <<>>
  /\ baseDoc = <<>>
  /\ ResolverFresh
  /\ ParserIdle
  /\ ValidatorIdle
  /\ ReaderIdle
  /\ AppIdle

DetectUEVersion ==
  /\ detStatus = "called"
  /\ detStatus' = "returned"
  /\ detVersion' = detectUEVersion(detContent)
  /\ UNCHANGED detContent
  /\ UNCHANGED <<rvars, pvars, vvars, evars, avars>>

NextDetect == DetectUEVersion

SpecDetect == InitDetect /\ [][NextDetect]_vars

\* the content has a renderer feature marker, a newest-only marker
HasRendererMarker ==
  \E m \in {MarkLumen, MarkStatLumen, MarkNanite, MarkStatNanite} :
    Includes(detContent, m)

HasNewestMarker ==
  \E m \in {MarkRhiSummary, MarkCoarseMesh, MarkStreamingSources} :
    Includes(detContent, m)

\* C18: detectUEVersion returns for every content: 5.6 when a renderer feature
\* marker and a newest-only marker are present; 5.3 when a renderer feature
\* marker is present without a newest-only marker, or when there is no
\* renderer marker but the environment string epicapp=UE_5; 4.27 otherwise.
C18_DetectionTable ==
  detStatus = "returned" =>
    detVersion =
      IF HasRendererMarker /\ HasNewestMarker THEN V56
      ELSE IF HasRendererMarker THEN V53
      ELSE IF Includes(detContent, MarkEpicApp5) THEN V53
      ELSE V427

\* a content with a newest-only marker and neither a renderer feature marker
\* nor the environment string, for which 4.27 was returned
C18_Witness ==
  /\ detStatus = "returned"
  /\ HasNewestMarker
  /\ ~HasRendererMarker
  /\ ~Includes(detContent, MarkEpicApp5)
  /\ detVersion = V427

(***************************************************************************)
(* validateConfig and validateEngineConfig, step by step                   *)
(***************************************************************************)

MaxValidated == 3

\* how the fetch of ue427.json and the reading of its body can end
LegacyOutcomes == FetchOutcomes \cup {"badJson"}

\* bodies of ue427.json: the shipped document and one without version and
\* without sections
LegacyDocs == {LegacyDocument, [version |-> <<>>, sections |-> <<>>]}

\* section definitions handed to validateEngineConfig
ValidatedNames == {<<"a">>, <<"b">>, <<>>}
ValidatedMarks == {<<<<"B">>, <<"F">>>>, <<<<>>, <<"F">>>>, <<<<"B">>, Undefined>>}
ValidatedSections ==
  {[name |-> n, startPattern |-> m[1], endPattern |-> m[2], parsePatternId |-> Undefined] :
     n \in ValidatedNames, m \in ValidatedMarks}

InitValidate ==
  /\ baseDoc \in BaseDocs
  /\ ResolverFresh
  /\ ParserIdle
  /\ DetectorIdle
  /\ ValidatorIdle
  /\ ReaderIdle
  /\ AppIdle

\* validateConfig(version) up to its first suspension
ValidateConfig(version) ==
  /\ valStatus = "idle"
  /\ valInput' = [version |-> version, sections |-> <<>>]
  /\ IF version = V427
       THEN /\ valStatus' = "legacy"
            /\ UNCHANGED <<valLoaded, valResult>>
       ELSE IF versionMap(version) = Undefined
         THEN /\ valStatus' = Caught(MsgUnsupported \o version).status
              /\ valResult' = Caught(MsgUnsupported \o version).result
              /\ valLoaded' = "failed"
         ELSE /\ valStatus' = "base"
              /\ UNCHANGED <<valLoaded, valResult>>
  /\ UNCHANGED <<rvars, pvars, dvars, evars, avars>>

\* validateConfig('4.27'): loadUE427Config has ended
ValidateLegacyDone(outcome, document) ==
  /\ valStatus = "legacy"
  /\ IF outcome = "ok"
       THEN /\ valStatus' = "done"
            /\ valLoaded' = "legacy"
            /\ valInput' = ConvertLegacy(document)
            /\ valResult' = validateLegacy(ConvertLegacy(document))
       ELSE /\ valStatus' = Caught(MsgLegacyFile \o Detail(outcome)).status
            /\ valResult' = Caught(MsgLegacyFile \o Detail(outcome)).result
            /\ valLoaded' = "failed"
            /\ UNCHANGED valInput
  /\ UNCHANGED <<rvars, pvars, dvars, evars, avars>>

\* validateConfig of a 5.x version: loadBaseEngineFile has ended
ValidateBaseDone(outcome) ==
  /\ valStatus = "base"
  /\ IF loadBaseEngineFileEnd(valInput.version, outcome).ok
       THEN /\ valStatus' = "done"
            /\ valLoaded' = "base"
            /\ valInput' = [valInput EXCEPT !.sections = parseEngineConfig(baseDoc)]
            /\ valResult' = validateEngineConfig(
                 [valInput EXCEPT !.sections = parseEngineConfig(baseDoc)])
       ELSE /\ valStatus' =
                 Caught(MsgBaseFile \o valInput.version \o <<":", " ">> \o Detail(outcome)).status
            /\ valResult' =
                 Caught(MsgBaseFile \o valInput.version \o <<":", " ">> \o Detail(outcome)).result
            /\ valLoaded' = "failed"
            /\ UNCHANGED valInput
  /\ UNCHANGED <<rvars, pvars, dvars, evars, avars>>

\* BaseEngineReader.validateEngineConfig(config)
ValidateEngineConfig(config) ==
  /\ valStatus = "idle"
  /\ valStatus' = "checked"
  /\ valInput' = config
  /\ valResult' = validateEngineConfig(config)
  /\ UNCHANGED valLoaded
  /\ UNCHANGED <<rvars, pvars, dvars, evars, avars>>

NextValidate ==
  \/ \E version \in VersionInputs : ValidateConfig(version)
  \/ \E outcome \in LegacyOutcomes : \E document \in LegacyDocs :
       ValidateLegacyDone(outcome, document)
  \/ \E outcome \in FetchOutcomes : ValidateBaseDone(outcome)
  \/ \E version \in {V53, <<>>} : \E n \in 0..MaxValidated :
       \E sections \in [1..n -> ValidatedSections] :
         ValidateEngineConfig([version |-> version, sections |-> sections])

SpecValidate == InitValidate /\ [][NextValidate]_vars

\* C19: validateConfig never ends in a rejection, for a supported version or
\* another one: it completes with a list of problem strings, and the list is
\* not empty when the configuration of the version could not be loaded.
C19_ValidateConfigNeverRejects ==
  /\ valStatus # "rejected"
  /\ valStatus = "done" =>
       /\ DOMAIN valResult = 1..Len(valResult)
       /\ \A i \in 1..Len(valResult) : DOMAIN valResult[i] = 1..Len(valResult[i])
       /\ valLoaded = "failed" => valResult # <<>>

\* validateConfig of a version without configuration has completed with a
\* problem list
C19_Witness ==
  /\ valStatus = "done"
  /\ valInput.version = V50
  /\ valLoaded = "failed"
  /\ Len(valResult) = 1

\* the sections of the validated configuration carrying name
Named(name) == {i \in 1..Len(valInput.sections) : valInput.sections[i].name = name}

\* the duplicate-name problems reported for name
DuplicateProblems(name) ==
  {i \in 1..Len(valResult) : valResult[i] = MsgDuplicate \o name}

\* validateEngineConfig has returned, called directly or by validateConfig
EngineConfigValidated ==
  valStatus = "checked" \/ (valStatus = "done" /\ valLoaded = "base")

\* C20: validateEngineConfig reports for each section name one duplicate-name
\* problem less than there are sections with that name: one per occurrence
\* after the first and none for a name occurring once. (A section whose name
\* is empty has no name: it is reported as lacking one.)
C20_DuplicatesPerName ==
  EngineConfigValidated =>
    \A k \in 1..Len(valInput.sections) :
      LET name == valInput.sections[k].name
      IN  Truthy(name) =>
            Cardinality(DuplicateProblems(name)) = Cardinality(Named(name)) - 1

\* a configuration with one name three times and so two duplicate problems
C20_Witness ==
  /\ valStatus = "checked"
  /\ Cardinality(Named(<<"a">>)) = 3
  /\ Cardinality(DuplicateProblems(<<"a">>)) = 2

(***************************************************************************)
(* BaseEngineReader.parseEngineConfig on base-settings texts               *)
(***************************************************************************)

MaxDocLines == 3

\* another header line
LineOtherHeader ==
  <<"[", "X", "]">>

\* a comment that reads like a definition
LineComment ==
  <<";", "c", "=", "a", "|", "b">>

\* a blank line
LineBlank ==
  <<" ">>

\* a definition with a pattern id, padded
LineFoo ==
  <<" ", "F", "o", "o", " ", "=", " ", "S", "t", "a", "r", "t", "F", "o",
    "o", " ", "|", " ", "E", "n", "d", "F", "o", "o", " ", "|", " ", "p",
    "a", "t", "1", " ", "\r">>

\* a definition whose third field is empty
LineEmptyId ==
  <<"N", "=", "S", "|", "E", "|">>

\* one field only
LineOneField ==
  <<"N", "=", "S">>

\* a definition whose end marker holds '='
LineEqInMarker ==
  <<"M", "=", "A", "|", "B", "=", "C", "|", "q">>

\* a definition whose start marker holds '='
LineEqInStart ==
  <<"K", "=", "A", "=", "1", "|", "B">>

\* nothing before '='
LineNoName ==
  <<"=", "S", "|", "E">>

\* a command with upper case, dots, whitespace and a reserved character
LineCmdObj ==
  <<"+", "C", "m", "d", "=", "\"", "O", "b", "j", ".", ".", "L", "i", "s",
    "t", " ", " ", "A", ":", "x", "\"", "\r">>

\* a plain command, indented
LineCmdMem ==
  <<" ", "+", "C", "m", "d", "=", "\"", "m", "e", "m", "\"">>

\* the lines a base-settings text is made of
DocLines ==
  {HdrSections, HdrFullCommands, LineOtherHeader, LineComment, LineBlank,
   LineFoo, LineEmptyId, LineOneField, LineEqInMarker, LineEqInStart, LineNoName,
   LineCmdObj, LineCmdMem}

\* a text is some lines, after the sniffed marker line or without it
InitReader ==
  /\ \E first \in {<<>>, <<HdrCommands>>} : \E n \in 0..MaxDocLines :
       \E body \in [1..n -> DocLines] : rdLines = first \o body
  /\ rdStatus = "called"
  /\ rdResult = <<>>
  /\ baseDoc = <<>>
  /\ ResolverFresh
  /\ ParserIdle
  /\ DetectorIdle
  /\ ValidatorIdle
  /\ AppIdle

ParseEngineConfig ==
  /\ rdStatus = "called"
  /\ rdStatus' = "returned"
  /\ rdResult' = parseEngineConfig(rdLines)
  /\ UNCHANGED rdLines
  /\ UNCHANGED <<rvars, pvars, dvars, vvars, avars>>

NextReader == ParseEngineConfig

SpecReader == InitReader /\ [][NextReader]_vars

\* the trimmed line at index i of the text
LineAt(i) == Trim(rdLines[i])

IsHeader(t) == StartsWith(t, <<"[">>)

IsSkipped(t) == t = <<>> \/ StartsWith(t, <<";">>)

\* the most recent header line before line i is hdr
OpenBy(hdr, i) ==
  \E j \in 1..(i - 1) :
    /\ LineAt(j) = hdr
    /\ \A k \in (j + 1)..(i - 1) : ~IsHeader(LineAt(k))

\* the text before and the text after the first '=' of t
BeforeEq(t) == SubSeq(t, 1, IndexIn(t, 1, {"="}) - 1)
AfterEq(t) == SubSeq(t, IndexIn(t, 1, {"="}) + 1, Len(t))

\* the pipe-delimited fields after '='
FieldsOf(t) == SplitChar(AfterEq(t), "|")

\* the text was read in the legacy dialect
LegacyDialect == \A i \in 1..Len(rdLines) : ~Includes(rdLines[i], HdrCommands)

\* t has the form Name=StartMarker|EndMarker|PatternId, PatternId optional
LegacyForm(t) ==
  /\ ~IsHeader(t)
  /\ ~IsSkipped(t)
  /\ Includes(t, <<"=">>)
  /\ Trim(BeforeEq(t)) # <<>>
  /\ Len(FieldsOf(t)) >= 2

\* the SectionDefinition the line Name=StartMarker|EndMarker|PatternId stands for
LegacyDefinition(t) ==
  [name           |-> Trim(BeforeEq(t)),
   startPattern   |-> Trim(FieldsOf(t)[1]),
   endPattern     |-> Trim(FieldsOf(t)[2]),
   parsePatternId |->
     IF Len(FieldsOf(t)) >= 3 /\ Trim(FieldsOf(t)[3]) # <<>>
       THEN Trim(FieldsOf(t)[3]) ELSE Undefined]

\* C21: a legacy definition line Name=StartMarker|EndMarker|PatternId inside an
\* open block parses to the SectionDefinition with the text before '=' as its
\* name, the first and second pipe-delimited fields as its markers and the
\* third as its pattern id, all trimmed; the pattern id is absent when the
\* third field is missing or empty.
C21_LegacyLineFields ==
  (rdStatus = "returned" /\ LegacyDialect) =>
    \A i \in 1..Len(rdLines) :
      (OpenBy(HdrSections, i) /\ LegacyForm(LineAt(i))) =>
        \E k \in 1..Len(rdResult) : rdResult[k] = LegacyDefinition(LineAt(i))

\* the text was read in the modern dialect
ModernDialect == ~LegacyDialect

\* t has the form +Cmd="<command>"
CommandForm(t) ==
  /\ StartsWith(t, CmdPrefix \o <<"\"">>)
  /\ Len(t) >= Len(CmdPrefix) + 2
  /\ t[Len(t)] = "\""

\* the command between the quotes
CommandOf(t) == SubSeq(t, Len(CmdPrefix) + 2, Len(t) - 1)

\* command in lower case, with one underscore for every reserved character,
\* for every run of whitespace and for every run of dots
RECURSIVE SafeId(_)
SafeId(command) ==
  IF command = <<>> THEN <<>>
  ELSE LET c == Head(command)
           rest == Tail(command)
           runOf(set) == c \in set /\ rest # <<>> /\ Head(rest) \in set
       IN  IF runOf(Whitespace) \/ runOf({"."}) THEN SafeId(rest)
           ELSE IF c \in Whitespace \cup {"."} \cup ReservedChars
             THEN <<"_">> \o SafeId(rest)
             ELSE <<LowerChar(c)>> \o SafeId(rest)

\* the SectionDefinition the line +Cmd="<command>" stands for
CommandDefinition(t) ==
  [name           |-> CommandOf(t),
   startPattern   |-> BeginPrefix \o CommandOf(t) \o <<"\"">>,
   endPattern     |-> EndPrefix \o CommandOf(t) \o <<"\"">>,
   parsePatternId |-> SafeId(CommandOf(t))]

\* C22: a line +Cmd="<command>" inside an open command block parses to the
\* SectionDefinition named by the command, whose markers are the begin and end
\* command phrases around the command text and whose pattern id is the command
\* in lower case with every reserved character, whitespace run and run of dots
\* replaced by an underscore; the id holds no upper-case letter, whitespace,
\* dot or reserved character.
C22_CommandLineDefinition ==
  (rdStatus = "returned" /\ ModernDialect) =>
    /\ \A i \in 1..Len(rdLines) :
         (OpenBy(HdrFullCommands, i) /\ CommandForm(LineAt(i))) =>
           \E k \in 1..Len(rdResult) : rdResult[k] = CommandDefinition(LineAt(i))
    /\ \A k \in 1..Len(rdResult) : \A m \in 1..Len(rdResult[k].parsePatternId) :
         LET c == rdResult[k].parsePatternId[m]
         IN  /\ c \notin Whitespace \cup {"."} \cup ReservedChars
             /\ LowerChar(c) = c

\* the command Obj..List  A:x was read and got the pattern id obj_list_a_x
C22_Witness ==
  /\ rdStatus = "returned"
  /\ \E k \in 1..Len(rdResult) :
       /\ rdResult[k].name =
            <<"O", "b", "j", ".", ".", "L", "i", "s", "t", " ", " ", "A", ":", "x">>
       /\ rdResult[k].parsePatternId =
            <<"o", "b", "j", "_", "l", "i", "s", "t", "_", "a", "_", "x">>

\* the lines of the text that satisfy Q, as their indices in line order
LinesWhere(Q(_)) == SelectSeq([i \in 1..Len(rdLines) |-> i], Q)

\* line i is in an open legacy block, is neither blank nor a comment, and has
\* at least two pipe-delimited fields after '='
LegacyYielding(i) ==
  /\ OpenBy(HdrSections, i)
  /\ ~IsHeader(LineAt(i))
  /\ ~IsSkipped(LineAt(i))
  /\ Includes(LineAt(i), <<"=">>)
  /\ Len(FieldsOf(LineAt(i))) >= 2

\* C27: in the legacy dialect a line yields a SectionDefinition exactly when
\* the most recent header before it is the legacy header, it is neither blank
\* nor a comment and it has at least two pipe-delimited fields after '='; the
\* definitions come in line order.
C27_LegacyLinesYielding ==
  (rdStatus = "returned" /\ LegacyDialect) =>
    /\ Len(rdResult) = Len(LinesWhere(LegacyYielding))
    /\ \A k \in 1..Len(rdResult) :
         rdResult[k].name = Trim(BeforeEq(LineAt(LinesWhere(LegacyYielding)[k])))

\* line i is a +Cmd= line of an open command block
CommandYielding(i) ==
  /\ OpenBy(HdrFullCommands, i)
  /\ StartsWith(LineAt(i), CmdPrefix)

\* the text holds a command block: its header followed by a +Cmd= line
HasCommandBlock == \E i \in 1..Len(rdLines) : CommandYielding(i)

\* the definitions are those of the +Cmd= lines of the command blocks, in
\* line order
OnePerCommandLine ==
  /\ Len(rdResult) = Len(LinesWhere(CommandYielding))
  /\ \A k \in 1..Len(rdResult) :
       rdResult[k] = CommandDefinition(LineAt(LinesWhere(CommandYielding)[k]))

\* every definition comes from a line of an open legacy block
OnlyLegacyLines ==
  \A k \in 1..Len(rdResult) :
    \E i \in 1..Len(rdLines) :
      /\ OpenBy(HdrSections, i)
      /\ ~IsHeader(LineAt(i))
      /\ rdResult[k].name = Trim(BeforeEq(LineAt(i)))

ReportedAbsent(c, i) ==
  \/ /\ callStatus[c] = "base"
     /\ callStatus'[c] \in {"sections", "resolved"}
     /\ i \in 1..Len(callDefs'[c])
     /\ Truthy(callDefs'[c][i].parsePatternId)
     /\ ~CacheHit(parsePatternCache, CacheKey(callVersion[c], callDefs'[c][i].parsePatternId))
     /\ getPatternFolder(callVersion[c]) \in DOMAIN manifestCache
     /\ (callDefs'[c][i].parsePatternId \o JsonSuffix)
          \notin manifestCache[getPatternFolder(callVersion[c])]
  \/ /\ callStatus[c] = "sections"
     /\ i \in 1..Len(callDefs[c])
     /\ secState[c][i] = "manifest"
     /\ secState'[c][i] # "manifest"
     /\ (callDefs[c][i].parsePatternId \o JsonSuffix)
          \notin manifestCache'[getPatternFolder(callVersion[c])]

\* C23: when the manifest reports the pattern id of a section absent for the
\* version family, loadParsePattern returns no pattern (the section gets zero
\* tables), stores the absent marker under the key and issues no fetch of the
\* pattern resource.
C23_AbsentMeansNoFetch ==
  [][\A c \in Calls : \A i \in 1..MaxSections :
       ReportedAbsent(c, i) =>
         LET key == CacheKey(callVersion[c], callDefs'[c][i].parsePatternId)
         IN  /\ secState'[c][i] = "settled"
             /\ secValue'[c][i] = <<ResolvedSection(callDefs'[c][i], <<>>)>>
             /\ secValue'[c][i][1].tables = <<>>
             /\ key \in DOMAIN parsePatternCache'
             /\ parsePatternCache'[key] = <<>>
             /\ Count(patternLoads', key) = Count(patternLoads, key)
             /\ secLoad'[c][i].pattern = "none"
    ]_vars

\* a resolved call whose first section was found absent in a manifest that
\* was loaded and lists the pattern of the second section
C23_Witness ==
  /\ callStatus[1] = "resolved"
  /\ Len(callDefs[1]) = 2
  /\ secLoad[1][1].manifest = "ok"
  /\ secLoad[1][1].pattern = "none"
  /\ callResult[1].sections[1].tables = <<>>
  /\ secLoad[1][2].pattern = "ok"
  /\ callResult[1].sections[2].tables # <<>>
  /\ CacheKey(callVersion[1], callDefs[1][1].parsePatternId) \in DOMAIN parsePatternCache

\* section i of call c has settled its resolution of the cache key `key`
ResolvedKey(c, i, key) ==
  /\ callStatus[c] \in {"sections", "resolved"}
  /\ i \in 1..Len(callDefs[c])
  /\ Truthy(callDefs[c][i].parsePatternId)
  /\ CacheKey(callVersion[c], callDefs[c][i].parsePatternId) = key
  /\ secState[c][i] = "settled"

\* the tables a cache entry stands for: none for the absent marker
EntryTables(entry) == IF entry = <<>> THEN <<>> ELSE entry[1].tables

\* C24: the resolutions of one (version, patternId) key by two sections
\* sharing the pattern id or by overlapping loadEngineConfig calls all obtain
\* the same result, and the cache entry left for the key is that value.
C24_SameKeySameValue ==
  \A c \in Calls, d \in Calls : \A i \in 1..MaxSections, j \in 1..MaxSections :
    \A key \in {CacheKey(callVersion[c], callDefs[c][k].parsePatternId) :
                  k \in 1..Len(callDefs[c])} :
      (ResolvedKey(c, i, key) /\ ResolvedKey(d, j, key)) =>
        /\ secValue[c][i][1].tables = secValue[d][j][1].tables
        /\ key \in DOMAIN parsePatternCache =>
             EntryTables(parsePatternCache[key]) = secValue[c][i][1].tables

\* C25: parse processes the configured sections one at a time in
\* configuration order, and yields to the host exactly in the steps that
\* append a section and bring the number of appended sections to a multiple
\* of five; an omitted section triggers no yield, and no section is processed
\* while a yield is pending.
C25_YieldEveryFifthAppended ==
  [][/\ pIndex' \in {pIndex, pIndex + 1}
     /\ pIndex' = pIndex + 1 =>
          /\ pStatus \in {"constructed", "running"}
          /\ Len(pSections') \in {Len(pSections), Len(pSections) + 1}
          /\ Len(pSections') = Len(pSections) + 1 => pOrigin' = Append(pOrigin, pIndex)
     /\ (pStatus # "yield" /\ pStatus' = "yield") <=>
          (Len(pSections') = Len(pSections) + 1 /\ Len(pSections') % 5 = 0)
     /\ (pStatus # "yield" /\ pStatus' = "yield") <=> pYields' = pYields + 1
     /\ pStatus = "yield" =>
          /\ pStatus' = "running"
          /\ pIndex' = pIndex
          /\ pSections' = pSections
    ]_vars

\* five sections were appended with one yield, and the section configured
\* after them was omitted without another one
C25_Witness ==
  /\ pStatus = "done"
  /\ Len(pSettings) = 7
  /\ Len(pSections) = 5
  /\ pOrigin = <<1, 3, 4, 5, 6>>
  /\ pYields = 1

\* the index of the table pattern that table a of parsed section k was parsed
\* with
PatternIndex(k, a) ==
  LET patterns == pSettings[pOrigin[k]].tables
  IN  CHOOSE p \in 1..Len(patterns) : FromPattern(pSections[k].tables[a], patterns[p])

\* the section text in front of the body of table a of parsed section k, and
\* the section text behind it
TextBefore(k, a) ==
  LET settings == pSections[k].tables[a].settings
  IN  TableMatch(SpanOf(pOrigin[k]), settings.start_mark, settings.end_mark)[1].pre

TextBehind(k, a) ==
  LET settings == pSections[k].tables[a].settings
      span == SpanOf(pOrigin[k])
      groups == TableMatch(span, settings.start_mark, settings.end_mark)[1]
  IN  SubSeq(span, Len(groups.pre) + Len(groups.table) + 1, Len(span))

\* C26: in a section with several table patterns the table of the first
\* pattern, and no other, carries preText, the section text in front of its
\* table body; the table of the last pattern, and no other, carries postText,
\* the section text behind its table body.
C26_PreAndPostText ==
  \A k \in 1..Len(pSections) : \A a \in 1..Len(pSections[k].tables) :
    LET table == pSections[k].tables[a]
        n == Len(pSettings[pOrigin[k]].tables)
    IN  n >= 2 =>
          /\ table.preText # Undefined <=> PatternIndex(k, a) = 1
          /\ PatternIndex(k, a) = 1 =>
               table.preText = Trim(WithoutEchoLines(TextBefore(k, a)))
          /\ table.postText # Undefined <=> PatternIndex(k, a) = n
          /\ PatternIndex(k, a) = n =>
               table.postText = Trim(WithoutEchoLines(TextBehind(k, a)))

(***************************************************************************)
(* The application: FileUpload.processFile / processSampleFile inside      *)
(* AppContent, over detectUEVersion, ConfigResolver and MemreportParser    *)
(***************************************************************************)

\* a report without any marker, with the section and the table of the legacy configuration
ReportLegacy ==
  <<"B", " ", "S", " ", "h", " ", "k", "\n", "u", " ", "v", "\n", "E", " ",
    "F">>

\* a report with a renderer feature marker and the section of the command rhi.Dump
ReportLumen ==
  <<"L", "u", "m", "e", "n", "\n", "M", "e", "m", "R", "e", "p", "o", "r",
    "t", ":", " ", "B", "e", "g", "i", "n", " ", "c", "o", "m", "m", "a",
    "n", "d", " ", "\"", "r", "h", "i", ".", "D", "u", "m", "p", "\"",
    "\n", "S", "1", " ", "x", "\n", "E", "1", "\n", "M", "e", "m", "R",
    "e", "p", "o", "r", "t", ":", " ", "E", "n", "d", " ", "c", "o", "m",
    "m", "a", "n", "d", " ", "\"", "r", "h", "i", ".", "D", "u", "m", "p",
    "\"">>

\* a report with a renderer feature marker and a newest-only marker
ReportNewest ==
  <<"N", "a", "n", "i", "t", "e", " ", "w", "p", ".", "D", "u", "m", "p",
    "S", "t", "r", "e", "a", "m", "i", "n", "g", "S", "o", "u", "r", "c",
    "e", "s">>

\* a report with the environment string and a newest-only marker only
ReportEpicApp ==
  <<"e", "p", "i", "c", "a", "p", "p", "=", "U", "E", "_", "5", ".", "1",
    " ", "w", "p", ".", "D", "u", "m", "p", "S", "t", "r", "e", "a", "m",
    "i", "n", "g", "S", "o", "u", "r", "c", "e", "s">>

ReportContents == {ReportLegacy, ReportLumen, ReportNewest, ReportEpicApp}

\* the text served as sample/demo.memreport
SampleContent == ReportNewest

\* FileUpload is rendered: {!parsedReport && !isProcessing && <FileUpload/>}
UploadShown == parsedReport = <<>> /\ ~isProcessing

\* no processFile / processSampleFile is under way (one at a time is modelled)
AppAtRest == appStatus \in {"idle", "done", "failed"}

\* the base-settings documents served to the application: those that do not
\* name the command obj list
AppBaseDocs ==
  {doc \in BaseDocs : \A k \in 1..Len(doc) : doc[k] # CmdLine(CmdObjList)}

InitApp ==
  /\ baseDoc \in AppBaseDocs
  /\ ResolverFresh
  /\ ParserIdle
  /\ DetectorIdle
  /\ ValidatorIdle
  /\ ReaderIdle
  /\ AppIdle

\* handleProcessingStart
onProcessingStart ==
  /\ isProcessing' = TRUE
  /\ parsedReport' = <<>>

\* processFile(file) up to its first suspension: a file with another
\* extension is refused, otherwise processing starts and the file is read
ProcessFile(hasExtension, content) ==
  /\ UploadShown
  /\ AppAtRest
  /\ starts < MaxStarts
  /\ IF ~hasExtension
       THEN /\ uploadError' = <<"Please select a .memreport file.">>
            /\ UNCHANGED <<appStatus, appSource, appContent, isProcessing, parsedReport>>
       ELSE /\ uploadError' = <<>>
            /\ onProcessingStart
            /\ appStatus' = "reading"
            /\ appSource' = "file"
            /\ appContent' = content
  /\ UNCHANGED <<rvars, pvars, dvars, vvars, evars>>

\* processSampleFile() up to its first suspension, the fetch of the sample
ProcessSampleFile ==
  /\ UploadShown
  /\ AppAtRest
  /\ starts < MaxStarts
  /\ uploadError' = <<>>
  /\ onProcessingStart
  /\ appStatus' = "reading"
  /\ appSource' = "sample"
  /\ appContent' = SampleContent
  /\ UNCHANGED <<rvars, pvars, dvars, vvars, evars>>

\* the catch clause of processFile / processSampleFile: setError reaches the
\* FileUpload instance that started the processing, which is no longer
\* rendered since isProcessing became true; AppContent is not told
Catch ==
  /\ appStatus' = "failed"
  /\ UNCHANGED <<appSource, appContent, isProcessing, parsedReport, uploadError>>

\* file.text(), or the fetch of the sample and response.text(), has ended;
\* the content is in hand and loadEngineConfig(detectUEVersion(content)) is
\* about to be called
ReadDone(outcome) ==
  /\ appStatus = "reading"
  /\ callStatus[1] = "idle"
  /\ IF outcome = "ok"
       THEN /\ appStatus' = "detected"
            /\ UNCHANGED <<appSource, appContent, isProcessing, parsedReport, uploadError>>
       ELSE Catch
  /\ UNCHANGED <<rvars, pvars, dvars, vvars, evars>>

\* ConfigResolver.loadEngineConfig(detectedVersion) is called
Resolve ==
  /\ appStatus = "detected"
  /\ callStatus[1] = "idle"
  /\ LoadEngineConfig(1, detectUEVersion(appContent))

\* await ConfigResolver.loadEngineConfig(...) has ended: with the resolved
\* configuration the timer of the yield is set, with an error the catch
\* clause runs
Resolved ==
  /\ appStatus = "detected"
  /\ Settled(1)
  /\ IF callStatus[1] = "resolved"
       THEN /\ appStatus' = "yield"
            /\ UNCHANGED <<appSource, appContent, isProcessing, parsedReport, uploadError>>
       ELSE Catch
  /\ UNCHANGED <<rvars, pvars, dvars, vvars, evars>>

\* the timer fires: new MemreportParser(content, name, resolvedConfig.sections)
\* and parser.parse() up to the loop
Construct ==
  /\ appStatus = "yield"
  /\ appStatus' = "parsing"
  /\ rawText' = appContent
  /\ pText' = NewParserText(appContent)
  /\ pSettings' = callResult[1].sections
  /\ pStatus' = "constructed"
  /\ pIndex' = 0
  /\ pSections' = <<>>
  /\ pOrigin' = <<>>
  /\ pYields' = 0
  /\ UNCHANGED <<appSource, appContent, isProcessing, parsedReport, uploadError>>
  /\ UNCHANGED <<rvars, dvars, vvars, evars>>

\* handleReportParsed
onReportParsed(report) ==
  /\ parsedReport' = <<report>>
  /\ isProcessing' = FALSE

\* await parser.parse() has ended: the document goes to onReportParsed, a
\* rejection to the catch clause
Parsed ==
  /\ appStatus = "parsing"
  /\ pStatus \in {"done", "failed"}
  /\ IF pStatus = "done"
       THEN /\ onReportParsed([sections |-> pSections])
            /\ appStatus' = "done"
            /\ UNCHANGED <<appSource, appContent, uploadError>>
       ELSE Catch
  /\ UNCHANGED <<rvars, pvars, dvars, vvars, evars>>

\* handleReset: a click on the logo, the title or the reset button of the
\* report view
HandleReset ==
  /\ parsedReport' = <<>>
  /\ isProcessing' = FALSE
  /\ UNCHANGED <<appStatus, appSource, appContent, uploadError>>
  /\ UNCHANGED <<rvars, pvars, dvars, vvars, evars>>

\* what goes on without the user, first part: the ends of the reads and of
\* the legacy fetch, and the continuations of processFile and parse. The
\* configurations resolved here have fewer than YieldEvery sections, so that
\* parse never takes its yield and Resume has nothing to resume.
NextAppSteps ==
  \/ \E outcome \in {"ok", "reject"} : ReadDone(outcome)
  \/ Resolve
  \/ \E outcome \in FetchOutcomes : LegacyDone(1, outcome)
  \/ Resolved
  \/ (appStatus # "detected" /\ Deliver(1))
  \/ Parse
  \/ Return
  \/ Parsed

\* what goes on without the user, second part: the ends of the fetches of
\* the 5.x pipeline, the timer of processFile and the loop of parse
NextAppWork ==
  \/ \E outcome \in FetchOutcomes : BaseDone(1, outcome)
  \/ \E i \in 1..MaxSections, outcome \in FetchOutcomes : ManifestDone(1, i, outcome)
  \/ \E i \in 1..MaxSections, outcome \in PatternOutcomes : PatternDone(1, i, outcome)
  \/ Construct
  \/ ParseSection

\* the guards of the disjuncts of NextAppWork, each of which changes the
\* state: ENABLED <<NextAppWork>>_vars
NextAppWorkEnabled ==
  \/ callStatus[1] = "base"
  \/ /\ callStatus[1] = "sections"
     /\ \E i \in 1..Len(callDefs[1]) : secState[1][i] \in {"manifest", "pattern"}
  \/ appStatus = "yield"
  \/ pStatus = "running" /\ pIndex <= Len(pSettings)

NextAppSystem == NextAppSteps \/ NextAppWork

\* what the user does
NextAppUser ==
  \/ \E hasExtension \in BOOLEAN, content \in ReportContents :
       ProcessFile(hasExtension, content)
  \/ ProcessSampleFile
  \/ HandleReset

NextApp == NextAppSystem \/ NextAppUser

SpecApp == InitApp /\ [][NextApp]_vars

\* every read, fetch and timer ends and every continuation runs, while the
\* user need not do anything: weak fairness of both parts of NextAppSystem,
\* the one of NextAppWork written out over its enabling condition
SpecAppFair ==
  /\ SpecApp
  /\ WF_vars(NextAppSteps)
  /\ ([]<>(~NextAppWorkEnabled) \/ []<><<NextAppWork>>_vars)

(***************************************************************************)
(* Detection followed by resolution                                        *)
(***************************************************************************)

\* the call of loadEngineConfig made by processFile / processSampleFile has
\* been given the detected version
Detected == appStatus \in {"detected", "yield", "parsing"} /\ callStatus[1] # "idle"

\* loadEngineConfig has a pipeline for the version: the legacy one, or the
\* base settings the version map names
HasPipeline(version) == version = V427 \/ versionMap(version) # Undefined

\* C29: the version detectUEVersion returns for the content is one
\* loadEngineConfig has a resolution pipeline for, so that the call made with
\* it by processFile / processSampleFile is never rejected with
\* 'Unsupported engine version'.
C29_DetectedVersionResolvable ==
  Detected =>
    /\ callVersion[1] = detectUEVersion(appContent)
    /\ HasPipeline(callVersion[1])
    /\ callError[1].message # "Unsupported engine version"

\* a content with the environment string only was detected as 5.3 and the
\* call made with it was resolved
C29_Witness ==
  /\ appStatus = "yield"
  /\ appContent = ReportEpicApp
  /\ callVersion[1] = V53
  /\ callStatus[1] = "resolved"

\* C30: once processing has started, the application leaves the processing
\* state by itself, with the report delivered or with the failure caught.
C30_ProcessingEnds == isProcessing ~> ~isProcessing

\* under the same fairness every processFile / processSampleFile that has
\* started comes to its end: the report is delivered or the catch clause runs
ProcessingRunEnds == (appStatus = "reading") ~> (appStatus \in {"done", "failed"})

====
